---- MODULE Spec2Model ----
(***************************************************************************)
(* AgenticShell: the accessibility-tree-to-filesystem mapper               *)
(* (vfs_mapper.ts), the CDP client's binding (cdp_client.ts) and the       *)
(* shell kernel of the background service worker (background/index.ts).    *)
(*                                                                         *)
(* A JavaScript string is the sequence of its characters, each a           *)
(* one-character TLA+ string: node ids, accessible names, display names,   *)
(* command words.  Only the role of a node, which the code looks up in     *)
(* sets and tables, is a TLA+ string; Spell gives its characters.  The     *)
(* text a command returns is a template with the strings put into it, or  *)
(* the lines it joins; colour escapes are left out of the templates, and   *)
(* where the code picks the colour by the entry the colour is kept beside  *)
(* the string.                                                             *)
(***************************************************************************)
EXTENDS Integers, Sequences, FiniteSets, TLC

\* ---------------------------------------------------------------- bounds

\* Longest cd target, counted in path segments.
MaxSegs == 2

\* ------------------------------------------------------- JavaScript values

\* undefined (an optional field that is absent)
Undef == "<undefined>"

\* undefined, as an optional string of characters
NoString == <<Undef>>

\* null, as a tab id (state.attachedTabId, CDPClient.attachedTabId)
NoTab == 0

\* null, as the result of a node lookup
NoNode == [nodeId |-> Undef]

Last(seq) == seq[Len(seq)]

Front(seq) == SubSeq(seq, 1, Len(seq) - 1)

\* x ?? d
OrElse(x, d) == IF x = Undef THEN d ELSE x

\* ------------------------------------------------------------ characters

UpperCase == <<"A","B","C","D","E","F","G","H","I","J","K","L","M",
               "N","O","P","Q","R","S","T","U","V","W","X","Y","Z">>

LowerCase == <<"a","b","c","d","e","f","g","h","i","j","k","l","m",
               "n","o","p","q","r","s","t","u","v","w","x","y","z">>

DigitChars == <<"0","1","2","3","4","5","6","7","8","9">>

Range(s) == {s[i] : i \in DOMAIN s}

LowerOf == [c \in Range(UpperCase) |->
              LowerCase[CHOOSE i \in DOMAIN UpperCase : UpperCase[i] = c]]

\* String.prototype.toLowerCase
toLowerCase(text) ==
  [i \in DOMAIN text |-> IF text[i] \in DOMAIN LowerOf THEN LowerOf[text[i]] ELSE text[i]]

\* the regular expression class \s
Spaces == {" ", "\t", "\n", "\r"}

IsSpace(c) == c \in Spaces

\* the complement of the class [^a-z0-9\s_-]
KeptChars == Range(LowerCase) \cup Range(DigitChars) \cup {"_", "-"} \cup Spaces

IsKept(c) == c \in KeptChars

\* String.prototype.trim
RECURSIVE TrimLeft(_)
TrimLeft(cs) ==
  IF cs # <<>> /\ IsSpace(Head(cs)) THEN TrimLeft(Tail(cs)) ELSE cs

RECURSIVE TrimRight(_)
TrimRight(cs) ==
  IF cs # <<>> /\ IsSpace(cs[Len(cs)])
    THEN TrimRight(SubSeq(cs, 1, Len(cs) - 1))
    ELSE cs

Trim(cs) == TrimRight(TrimLeft(cs))

\* replace(/\s+/g, "_"): every maximal run of whitespace becomes one "_"
RECURSIVE CollapseSpace(_)
CollapseSpace(cs) ==
  IF cs = <<>> THEN <<>>
  ELSE IF IsSpace(Head(cs)) THEN <<"_">> \o CollapseSpace(TrimLeft(cs))
  ELSE <<Head(cs)>> \o CollapseSpace(Tail(cs))

\* String(n) of a natural number
RECURSIVE NumChars(_)
NumChars(n) ==
  IF n < 10 THEN <<DigitChars[n + 1]>>
  ELSE NumChars(n \div 10) \o <<DigitChars[(n % 10) + 1]>>

\* Array.prototype.join
RECURSIVE Join(_, _)
Join(strings, sep) ==
  IF strings = <<>> THEN <<>>
  ELSE IF Len(strings) = 1 THEN strings[1]
  ELSE strings[1] \o sep \o Join(Tail(strings), sep)

\* String.prototype.split(sep) for a one-character sep
RECURSIVE SplitFrom(_, _, _)
SplitFrom(text, sep, current) ==
  IF text = <<>> THEN <<current>>
  ELSE IF Head(text) = sep
    THEN <<current>> \o SplitFrom(Tail(text), sep, <<>>)
  ELSE SplitFrom(Tail(text), sep, Append(current, Head(text)))

Split(text, sep) == SplitFrom(text, sep, <<>>)

\* Boolean(s) of a string
NonEmpty(s) == s # <<>>

\* slice(0, 40)
MaxNameLen == 40

\* String.prototype.slice(0, n)
sliceTo(text, n) == SubSeq(text, 1, IF n < Len(text) THEN n ELSE Len(text))

\* ------------------------------------------------------------ vfs_mapper

CONTAINER_ROLES ==
  {"group", "navigation", "form", "search", "section", "main",
   "complementary", "banner", "contentinfo", "region", "article", "list",
   "listitem", "tree", "treeitem", "tablist", "tabpanel", "dialog", "menu",
   "menubar", "toolbar", "table", "row", "rowgroup", "grid", "document",
   "application", "figure", "feed", "log", "status", "timer", "alertdialog",
   "generic", "WebArea", "RootWebArea", "Iframe", "IframePresentational"}

INTERACTIVE_ROLES ==
  {"button", "link", "textbox", "checkbox", "radio", "combobox", "menuitem",
   "menuitemcheckbox", "menuitemradio", "option", "switch", "tab", "slider",
   "spinbutton", "searchbox"}

\* the characters of a role string, for the roles the pages below use
Spell(role) ==
  CASE role = "RootWebArea" -> <<"R","o","o","t","W","e","b","A","r","e","a">>
    [] role = "WebArea" -> <<"W","e","b","A","r","e","a">>
    [] role = "main" -> <<"m","a","i","n">>
    [] role = "form" -> <<"f","o","r","m">>
    [] role = "generic" -> <<"g","e","n","e","r","i","c">>
    [] role = "button" -> <<"b","u","t","t","o","n">>
    [] role = "link" -> <<"l","i","n","k">>
    [] role = "textbox" -> <<"t","e","x","t","b","o","x">>
    [] role = "list" -> <<"l","i","s","t">>
    [] role = "StaticText" -> <<"S","t","a","t","i","c","T","e","x","t">>
    [] role = "none" -> <<"n","o","n","e">>
    [] role = "unknown" -> <<"u","n","k","n","o","w","n">>
    [] role = "navigation" -> <<"n","a","v","i","g","a","t","i","o","n">>
    [] role = "heading" -> <<"h","e","a","d","i","n","g">>
    [] role = "" -> <<>>

\* the sanitize closure of generateNodeName
sanitize(text) ==
  sliceTo(CollapseSpace(Trim(SelectSeq(toLowerCase(text), IsKept))), MaxNameLen)

\* the roleSuffix table of generateNodeName; Undef for a role it does not hold
roleSuffix(role) ==
  CASE role = "button" -> <<"_","b","t","n">>
    [] role = "link" -> <<"_","l","i","n","k">>
    [] role = "textbox" -> <<"_","i","n","p","u","t">>
    [] role = "checkbox" -> <<"_","c","h","k">>
    [] role = "radio" -> <<"_","r","a","d","i","o">>
    [] role = "combobox" -> <<"_","s","e","l","e","c","t">>
    [] role = "menuitem" -> <<"_","i","t","e","m">>
    [] role = "tab" -> <<"_","t","a","b">>
    [] role = "slider" -> <<"_","s","l","i","d","e","r">>
    [] role = "searchbox" -> <<"_","s","e","a","r","c","h">>
    [] role = "switch" -> <<"_","s","w","i","t","c","h">>
    [] role = "img" -> <<"_","i","m","g">>
    [] role = "image" -> <<"_","i","m","g">>
    [] role = "heading" -> <<"_","h","e","a","d","i","n","g">>
    [] OTHER -> Undef

\* the returns of generateNodeName below without the node id in the last
NameOfRoleAlone(cleanName, cleanDescription, role, suffix, nodeId) ==
  IF cleanName # <<>> THEN cleanName \o suffix
  ELSE IF cleanDescription # <<>> THEN cleanDescription \o suffix
  ELSE Spell(role) \o suffix

\* the returns of generateNodeName, given the sanitized name and description
\* (empty when the node has none) and the suffix of the role
NameOf(cleanName, cleanDescription, role, suffix, nodeId) ==
  IF cleanName # <<>> THEN cleanName \o suffix
  ELSE IF cleanDescription # <<>> THEN cleanDescription \o suffix
  ELSE Spell(role) \o (IF suffix # <<>> THEN suffix ELSE <<"_">> \o nodeId)

generateNodeName(node) ==
  NameOf(sanitize(node.name), sanitize(node.description),
         OrElse(node.role, "unknown"),
         OrElse(roleSuffix(OrElse(node.role, "unknown")), <<>>),
         node.nodeId)

\* isContainerNode below deciding by the children alone
isContainerNodeByChildren(node) == Len(node.childIds) > 0

isContainerNode(node) ==
  LET role == OrElse(node.role, "")
  IN  \/ role \in CONTAINER_ROLES
      \/ Len(node.childIds) > 0 /\ role \notin INTERACTIVE_ROLES

\* Map.prototype.get on a Map kept as the sequence of its values in
\* insertion order; NoNode for undefined
MapGet(map, id) ==
  IF \E i \in DOMAIN map : map[i].nodeId = id
    THEN map[CHOOSE i \in DOMAIN map : map[i].nodeId = id]
    ELSE NoNode

\* Map.prototype.set: a key already present keeps its place
MapSet(map, node) ==
  IF \E i \in DOMAIN map : map[i].nodeId = node.nodeId
    THEN [i \in DOMAIN map |-> IF map[i].nodeId = node.nodeId THEN node ELSE map[i]]
    ELSE Append(map, node)

RECURSIVE buildNodeMapFrom(_, _)

\* the loop of buildNodeMap below without the test of node.ignored
buildNodeMapOfAll(axNodes, map) ==
  IF axNodes = <<>> THEN map
  ELSE buildNodeMapFrom(Tail(axNodes), MapSet(map, Head(axNodes)))

buildNodeMapFrom(axNodes, map) ==
  IF axNodes = <<>> THEN map
  ELSE buildNodeMapFrom(Tail(axNodes),
         IF ~Head(axNodes).ignored THEN MapSet(map, Head(axNodes)) ELSE map)

buildNodeMap(axNodes) == buildNodeMapFrom(axNodes, <<>>)

IsRootRole(node) == OrElse(node.role, "") \in {"RootWebArea", "WebArea"}

findRootNode(map) ==
  IF \E i \in DOMAIN map : IsRootRole(map[i])
    THEN map[CHOOSE i \in DOMAIN map :
               /\ IsRootRole(map[i])
               /\ \A j \in 1..(i - 1) : ~IsRootRole(map[j])]
  ELSE IF map # <<>> THEN map[1]
  ELSE NoNode

\* null, as the result of axNodeToVFSNode and findChildByName
NoVFS == [axNodeId |-> Undef]

axNodeToVFSNode(node) ==
  LET role == OrElse(node.role, "")
  IN  IF role = "none" \/ role = "Ignored" THEN NoVFS
      ELSE [axNodeId         |-> node.nodeId,
            backendDOMNodeId |-> node.backendDOMNodeId,
            name             |-> generateNodeName(node),
            role             |-> role,
            value            |-> node.value,
            isDirectory      |-> isContainerNode(node)]

\* seenNames.get(baseName) ?? 0, seenNames a function from names to counts
SeenCount(seenNames, baseName) ==
  IF baseName \in DOMAIN seenNames THEN seenNames[baseName] ELSE 0

\* new Map() of seenNames
NoneSeen == [n \in {} |-> 0]

\* deduplicateName below numbering by the count before the entry: the
\* second of a name gets _1
deduplicateNameByCount(node, seenNames) ==
  LET baseName == node.name
      count    == SeenCount(seenNames, baseName)
  IN  [node |-> IF count > 0
                  THEN [node EXCEPT !.name = baseName \o <<"_">> \o NumChars(count)]
                  ELSE node,
       seenNames |-> [n \in DOMAIN seenNames \cup {baseName} |->
                        IF n = baseName THEN count + 1 ELSE seenNames[n]]]

\* deduplicateName changes its two arguments in place: the pair of them
\* after the call
deduplicateName(node, seenNames) ==
  LET baseName == node.name
      count    == SeenCount(seenNames, baseName)
  IN  [node |-> IF count > 0
                  THEN [node EXCEPT !.name = baseName \o <<"_">> \o NumChars(count + 1)]
                  ELSE node,
       seenNames |-> [n \in DOMAIN seenNames \cup {baseName} |->
                        IF n = baseName THEN count + 1 ELSE seenNames[n]]]

\* the loop body of getChildVFSNodes below without the flattening
ChildEntryUnflattened(childId, map) ==
  LET child == MapGet(map, childId)
  IN  IF child = NoNode \/ child.ignored THEN NoVFS
      ELSE axNodeToVFSNode(child)

\* the node at the end of the chain of wrappers that starts at a node
RECURSIVE Unwrapped(_, _)
Unwrapped(node, map) ==
  LET only == MapGet(map, node.childIds[1])
  IN  IF /\ OrElse(node.role, "") = "generic" /\ node.name = <<>>
         /\ Len(node.childIds) = 1 /\ only # NoNode /\ ~only.ignored
        THEN Unwrapped(only, map)
        ELSE node

\* the loop body of getChildVFSNodes below eliding every level of a chain of
\* wrappers at once
ChildEntryThroughWrappers(childId, map) ==
  LET child == MapGet(map, childId)
  IN  IF child = NoNode \/ child.ignored THEN NoVFS
      ELSE IF OrElse(child.role, "") \in {"none", "Ignored"} THEN NoVFS
      ELSE axNodeToVFSNode(Unwrapped(child, map))

\* the node that the loop body of getChildVFSNodes lists for childId:
\* NoVFS when the body reaches continue or lists nothing
ChildEntry(childId, map) ==
  LET child == MapGet(map, childId)
  IN  IF child = NoNode \/ child.ignored THEN NoVFS
      ELSE LET role       == OrElse(child.role, "")
               name       == child.name
               grandchild == MapGet(map, child.childIds[1])
           IN  IF role = "none" \/ role = "Ignored" THEN NoVFS
               ELSE axNodeToVFSNode(IF /\ role = "generic"
                                        /\ name = <<>>
                                        /\ Len(child.childIds) = 1
                                        /\ grandchild # NoNode
                                        /\ ~grandchild.ignored
                                       THEN grandchild
                                       ELSE child)

\* the for loop of getChildVFSNodes over the child ids that are left, and
\* the end of its body for the node that a child id lists
RECURSIVE ChildLoop(_, _, _, _)
RECURSIVE ChildListed(_, _, _, _, _)
ChildListed(vfsNode, childIds, map, results, seenNames) ==
  IF vfsNode = NoVFS THEN ChildLoop(childIds, map, results, seenNames)
  ELSE LET d == deduplicateName(vfsNode, seenNames)
       IN  ChildLoop(childIds, map, Append(results, d.node), d.seenNames)

ChildLoop(childIds, map, results, seenNames) ==
  IF childIds = <<>> THEN results
  ELSE ChildListed(ChildEntry(Head(childIds), map), Tail(childIds), map,
                   results, seenNames)

getChildVFSNodes(parentId, map) ==
  LET parent == MapGet(map, parentId)
  IN  IF parent = NoNode THEN <<>>
      ELSE ChildLoop(parent.childIds, map, <<>>, NoneSeen)

\* Array.prototype.find by name; NoVFS for undefined
FindNamed(children, name) ==
  IF \E i \in DOMAIN children : children[i].name = name
    THEN children[CHOOSE i \in DOMAIN children :
                    /\ children[i].name = name
                    /\ \A j \in 1..(i - 1) : children[j].name # name]
    ELSE NoVFS

findChildByName(parentId, name, map) ==
  FindNamed(getChildVFSNodes(parentId, map), name)

\* ------------------------------------------------- the pages of the tabs

\* an AXNode as CDP reports it: role Undef when absent; name, description
\* and childIds empty when absent; backendDOMNodeId 0 and value NoString
\* when absent
AXNode(nodeId, role, name, ignored, childIds, backendDOMNodeId, value) ==
  [nodeId |-> nodeId, role |-> role, name |-> name, description |-> <<>>,
   value |-> value, backendDOMNodeId |-> backendDOMNodeId,
   ignored |-> ignored, childIds |-> childIds]

\* a shop page.  Under the root: the main area, a list, an unnamed generic
\* wrapper of one button, an ignored child and a child of role none.  Under
\* the main area: a form, two buttons of the same name, and a text whose own
\* name is the disambiguated name of the second button.
PageShop ==
  << AXNode(<<"1">>, "RootWebArea", <<"S","h","o","p">>, FALSE, <<<<"2">>, <<"3">>, <<"4">>, <<"7">>, <<"8">>>>, 0, NoString),
     AXNode(<<"2">>, "main", <<"M","a","i","n">>, FALSE, <<<<"5">>, <<"a">>, <<"b">>, <<"c">>>>, 0, NoString),
     AXNode(<<"3">>, "list", <<"N","a","v">>, FALSE, <<<<"d">>>>, 0, NoString),
     AXNode(<<"4">>, "generic", <<>>, FALSE, <<<<"e">>>>, 0, NoString),
     AXNode(<<"5">>, "form", <<"F","o","r","m">>, FALSE, <<<<"6">>>>, 0, NoString),
     AXNode(<<"6">>, "textbox", <<"E","-","m","a","i","l","!">>, FALSE, <<>>, 106, <<"x">>),
     AXNode(<<"7">>, "generic", <<>>, TRUE, <<>>, 0, NoString),
     AXNode(<<"8">>, "none", <<>>, FALSE, <<>>, 0, NoString),
     AXNode(<<"a">>, "button", <<"O","K">>, FALSE, <<>>, 110, NoString),
     AXNode(<<"b">>, "button", <<"O","K">>, FALSE, <<>>, 111, NoString),
     AXNode(<<"c">>, "StaticText", <<"o","k","_","b","t","n","_","2">>, FALSE, <<>>, 0, NoString),
     AXNode(<<"d">>, "link", <<"U","p">>, FALSE, <<<<"f">>>>, 113, NoString),
     AXNode(<<"e">>, "button", <<"G","o">>, FALSE, <<>>, 114, NoString),
     AXNode(<<"f">>, "StaticText", <<"U","p">>, FALSE, <<>>, 0, NoString) >>

\* a page whose document node is not the first node reported, with two lists
\* of the same name and a text named like the form of the shop page
PageDocs ==
  << AXNode(<<"9">>, "StaticText", <<"T","o","p">>, FALSE, <<>>, 0, NoString),
     AXNode(<<"1">>, "WebArea", <<"D","o","c","s">>, FALSE, <<<<"2">>, <<"3">>, <<"9">>>>, 0, NoString),
     AXNode(<<"2">>, "list", <<"M","a","i","n">>, FALSE, <<<<"4">>>>, 0, NoString),
     AXNode(<<"3">>, "list", <<"M","a","i","n">>, FALSE, <<>>, 0, NoString),
     AXNode(<<"4">>, "StaticText", <<"F","o","r","m">>, FALSE, <<>>, 0, NoString) >>

\* a page without a document role, with a node that has no role and no name
PageBare ==
  << AXNode(<<"2">>, "main", <<"m","a","i","n">>, FALSE, <<<<"5">>, <<"9">>>>, 0, NoString),
     AXNode(<<"5">>, "form", <<" ","F","o","r","m"," ">>, FALSE, <<>>, 0, NoString),
     AXNode(<<"9">>, Undef, <<>>, FALSE, <<<<"6">>>>, 0, NoString),
     AXNode(<<"6">>, "link", <<"?">>, FALSE, <<>>, 206, NoString) >>

\* a page all of whose nodes are ignored
PageHidden ==
  << AXNode(<<"1">>, "RootWebArea", <<>>, TRUE, <<<<"2">>>>, 0, NoString),
     AXNode(<<"2">>, "generic", <<>>, TRUE, <<>>, 0, NoString) >>

\* a blank page: a root whose only child is ignored
PageBlank ==
  << AXNode(<<"1">>, "RootWebArea", <<>>, FALSE, <<<<"2">>>>, 0, NoString),
     AXNode(<<"2">>, "generic", <<>>, TRUE, <<>>, 0, NoString) >>

\* what Accessibility.getFullAXTree can answer
Pages == {PageShop, PageDocs, PageBare, PageHidden}

\* what it can answer to the shell's commands: the blank page too
ShellPages == Pages \cup {PageBlank}

\* the tab ids chrome.tabs.query can report for the active tab
Tabs == {1, 2}

\* ------------------------------------------------------------------ state

VARIABLES
  state,     \* the ShellState of the kernel: cwd, cwdNames, attachedTabId, env
  nodeMap,   \* the kernel's Map of AXNodes, in insertion order
  cdp,       \* the CDPClient: attachedTabId, the tabs that chrome.debugger is
             \* attached to at its request, and those of them on which the
             \* Accessibility, DOM and Runtime domains are enabled
  treeTab,   \* history: the tab whose tree was read into nodeMap (NoTab: none)
  axTree,    \* history: the AXNodes that nodeMap was built from
  pending,   \* the calls of the STDIN listener that are suspended at an await
  last,      \* history: the last command executed, its arguments and its text
  mcp,       \* the MCP server: its flags, extension client, calls, audit log
             \* and, as history, the EXECUTE messages it has sent
  page       \* environment: the AXNodes the attached tab shows now, and how it
             \* came to show them since the kernel last read them

vars == <<state, nodeMap, cdp, treeTab, axTree, pending, last, mcp, page>>

Slash == <<"/">>

DotDot == <<".", ".">>

\* the keys and values of the initial state.env
SHELLKEY == <<"S","H","E","L","L">>

SHELLVAL == <<"/","b","i","n","/","a","g","e","n","t","s","h","e","l","l">>

TERMKEY == <<"T","E","R","M">>

TERMVAL == <<"x","t","e","r","m","-","2","5","6","c","o","l","o","r">>

PS1KEY == <<"P","S","1">>

PS1VAL == <<"a","g","e","n","t","@","s","h","e","l","l",":","$","P","W","D","$"," ">>

\* let extensionClient: WebSocket | null = null
NoClient == 0

\* the server when it has started with ALLOW_WRITE, ALLOW_SENSITIVE and
\* NO_CONFIRM as given: no connection, no extension client, no pending
\* request and no timer of one, no call, an empty audit log
McpStart(allowWrite, allowSensitive, noConfirm) ==
  [ALLOW_WRITE |-> allowWrite,
   ALLOW_SENSITIVE |-> allowSensitive,
   NO_CONFIRM |-> noConfirm,
   EXPOSE_COOKIES |-> FALSE,
   extensionClient |-> NoClient,
   sockets |-> <<>>,
   pendingRequests |-> {},
   timers |-> {},
   calls |-> <<>>,
   log |-> <<>>,
   logWritable |-> TRUE,
   sent |-> <<>>]

\* an entry of state.env; the object keeps its keys in insertion order
EnvEntry(k, v) == [key |-> k, value |-> v]

\* no page is followed: what the tab shows is drawn at each fetch
NoPage == [tree |-> <<>>, change |-> "none"]

Init ==
  /\ state = [cwd |-> <<>>,
              cwdNames |-> <<Slash>>,
              attachedTabId |-> NoTab,
              env |-> << EnvEntry(SHELLKEY, SHELLVAL),
                         EnvEntry(TERMKEY, TERMVAL),
                         EnvEntry(PS1KEY, PS1VAL) >>]
  /\ nodeMap = <<>>
  /\ cdp = [attachedTabId |-> NoTab, debuggees |-> {}, enabled |-> {}]
  /\ treeTab = NoTab
  /\ axTree = <<>>
  /\ pending = <<>>
  /\ mcp = McpStart(FALSE, FALSE, FALSE)
  /\ page = NoPage
  /\ last = [cmd |-> "", args |-> <<>>, out |-> [text |-> "", with |-> <<>>]]

\* the text a command returns: a template and the strings put into it
Text(template, with) == [text |-> template, with |-> with]

\* port.postMessage({type: "STDOUT", output}) of the command's text
Reply(cmd, args, out) == last' = [cmd |-> cmd, args |-> args, out |-> out]

\* the catch of executeCommand
Caught(message) == Text("Error: " \o message, <<>>)

\* err.message of a chrome.runtime.lastError
ChromeError == "<chrome.runtime.lastError>"

\* err.message of CDPClient.send without a bound tab
CdpNotAttached == "Not attached to any tab. Run 'attach' first."

\* err.message of ensureAttached
NotAttached == "Not attached to a tab. Run 'attach' first."

\* err.message of getCurrentNodeId
NoCwd == "No CWD set. Run 'attach' first."

\* ensureAttached returns without throwing
ensureAttached == ~(state.attachedTabId = NoTab \/ Len(nodeMap) = 0)

\* if (root) { state.cwd = [root.nodeId]; state.cwdNames = ["/"]; }
ResetToRoot(st, map) ==
  LET root == findRootNode(map)
  IN  IF root # NoNode
        THEN [st EXCEPT !.cwd = <<root.nodeId>>, !.cwdNames = <<Slash>>]
        ELSE st

\* ------------------------------------------------- attach, detach, refresh

\* CDPClient.attach(tabId) under the outcome of the debugger calls: the
\* binding it leaves and whether it threw
cdpAttach(tabId, outcome) ==
  LET left == cdp.debuggees \ {cdp.attachedTabId}
      on   == cdp.enabled \ {cdp.attachedTabId}
  IN  IF cdp.attachedTabId = tabId
        THEN [attachedTabId |-> tabId, debuggees |-> cdp.debuggees,
              enabled |-> cdp.enabled, threw |-> FALSE]
      ELSE CASE outcome = "attachFails" ->
                  [attachedTabId |-> NoTab, debuggees |-> left,
                   enabled |-> on, threw |-> TRUE]
             [] outcome = "enableFails" ->
                  [attachedTabId |-> tabId, debuggees |-> left \cup {tabId},
                   enabled |-> on, threw |-> TRUE]
             [] OTHER ->
                  [attachedTabId |-> tabId, debuggees |-> left \cup {tabId},
                   enabled |-> on \cup {tabId}, threw |-> FALSE]

\* how the external calls of handleAttach can end
AttachOutcomes == {"attachFails", "enableFails", "fetchFails", "ok"}

handleAttach(tab, outcome, axNodes) ==
  IF tab = NoTab
    THEN /\ Reply("attach", <<>>, Text("Error: No active tab found.", <<>>))
         /\ UNCHANGED <<state, nodeMap, cdp, treeTab, axTree, pending, mcp, page>>
  ELSE LET bound == cdpAttach(tab, outcome)
       IN  /\ cdp' = [attachedTabId |-> bound.attachedTabId, debuggees |-> bound.debuggees,
                   enabled |-> bound.enabled]
           /\ IF bound.threw
                THEN /\ Reply("attach", <<>>,
                              Text("Error attaching: " \o ChromeError, <<>>))
                     /\ UNCHANGED <<state, nodeMap, treeTab, axTree, pending, mcp, page>>
              ELSE IF outcome = "fetchFails"
                THEN /\ state' = [state EXCEPT !.attachedTabId = tab]
                     /\ Reply("attach", <<>>,
                              Text("Error attaching: " \o ChromeError, <<>>))
                     /\ UNCHANGED <<nodeMap, treeTab, axTree, pending, mcp, page>>
              ELSE /\ nodeMap' = buildNodeMap(axNodes)
                   /\ treeTab' = tab
                   /\ axTree' = axNodes
                   /\ UNCHANGED <<pending, mcp, page>>
                   /\ state' = ResetToRoot([state EXCEPT !.attachedTabId = tab],
                                           nodeMap')
                   /\ Reply("attach", <<>>,
                        Text("Attached to tab {0}\r\n  Title: unknown\r\n  URL:   unknown\r\n  AX Nodes: {1}\r\n",
                             <<NumChars(tab), NumChars(Len(nodeMap'))>>))

handleDetach ==
  IF state.attachedTabId = NoTab
    THEN /\ Reply("detach", <<>>, Text("Not attached to any tab.", <<>>))
         /\ UNCHANGED <<state, nodeMap, cdp, treeTab, axTree, pending, mcp, page>>
  ELSE /\ cdp' = [attachedTabId |-> NoTab,
                 debuggees |-> cdp.debuggees \ {cdp.attachedTabId},
                 enabled |-> cdp.enabled \ {cdp.attachedTabId}]
       /\ state' = [state EXCEPT !.attachedTabId = NoTab,
                                 !.cwd = <<>>,
                                 !.cwdNames = <<Slash>>]
       /\ nodeMap' = <<>>
       /\ treeTab' = NoTab
       /\ axTree' = <<>>
       /\ UNCHANGED <<pending, mcp, page>>
       /\ Reply("detach", <<>>, Text("Detached.", <<>>))

\* how the external call of handleRefresh can end
RefreshOutcomes == {"fetchFails", "ok"}

\* handleRefresh below with a fetch that fails sending CWD back to the root
handleRefreshResetting(outcome, axNodes) ==
  IF state.attachedTabId = NoTab
    THEN /\ Reply("refresh", <<>>, Text("Not attached. Run 'attach' first.", <<>>))
         /\ UNCHANGED <<state, nodeMap, cdp, treeTab, axTree, pending, mcp, page>>
  ELSE IF cdp.attachedTabId = NoTab \/ outcome = "fetchFails"
    THEN /\ Reply("refresh", <<>>,
                  Caught(IF cdp.attachedTabId = NoTab THEN CdpNotAttached ELSE ChromeError))
         /\ state' = ResetToRoot(state, nodeMap)
         /\ UNCHANGED <<nodeMap, cdp, treeTab, axTree, pending, mcp, page>>
  ELSE /\ nodeMap' = buildNodeMap(axNodes)
       /\ treeTab' = cdp.attachedTabId
       /\ axTree' = axNodes
       /\ UNCHANGED <<pending, mcp, page>>
       /\ state' = ResetToRoot(state, nodeMap')
       /\ Reply("refresh", <<>>,
                Text("Refreshed. {0} AX nodes loaded.", <<NumChars(Len(nodeMap'))>>))
       /\ UNCHANGED cdp

handleRefresh(outcome, axNodes) ==
  IF state.attachedTabId = NoTab
    THEN /\ Reply("refresh", <<>>, Text("Not attached. Run 'attach' first.", <<>>))
         /\ UNCHANGED <<state, nodeMap, cdp, treeTab, axTree, pending, mcp, page>>
  ELSE IF cdp.attachedTabId = NoTab
    THEN /\ Reply("refresh", <<>>, Caught(CdpNotAttached))
         /\ UNCHANGED <<state, nodeMap, cdp, treeTab, axTree, pending, mcp, page>>
  ELSE IF outcome = "fetchFails"
    THEN /\ Reply("refresh", <<>>, Caught(ChromeError))
         /\ UNCHANGED <<state, nodeMap, cdp, treeTab, axTree, pending, mcp, page>>
  ELSE /\ nodeMap' = buildNodeMap(axNodes)
       /\ treeTab' = cdp.attachedTabId
       /\ axTree' = axNodes
       /\ UNCHANGED <<pending, mcp, page>>
       /\ state' = ResetToRoot(state, nodeMap')
       /\ Reply("refresh", <<>>,
                Text("Refreshed. {0} AX nodes loaded.", <<NumChars(Len(nodeMap'))>>))
       /\ UNCHANGED cdp

\* ---------------------------------------------------------------- cd, pwd

\* the segment names cd targets are made of: ".." and two display names of
\* the pages; "form" is a directory on two pages and a file on the third
SegNames == {DotDot, <<"m","a","i","n">>, <<"f","o","r","m">>}

\* the targets of n segments
RECURSIVE SegPaths(_)
SegPaths(n) ==
  IF n = 1 THEN SegNames
  ELSE {p \o Slash \o seg : p \in SegPaths(n - 1), seg \in SegNames}

\* the targets of cd: "/", the relative paths of up to MaxSegs segments and
\* the one-segment paths with a leading "/"
CdTargets ==
  {Slash} \cup UNION {SegPaths(n) : n \in 1..MaxSegs}
          \cup {Slash \o seg : seg \in SegNames}

\* the argument lists of cd
CdArgs == {<<>>} \cup {<<target>> : target \in CdTargets}

\* what the for loop of handleCd leaves: cwd, cwdNames and the text that
\* handleCd returns
CdResult(cwd, cwdNames, out) == [cwd |-> cwd, cwdNames |-> cwdNames, out |-> out]

RECURSIVE CdLoop(_, _, _)

\* the loop body below without the isDirectory test: a file is entered
CdIntoFiles(match, pathParts, cwd, cwdNames) ==
  IF match = NoVFS
    THEN CdResult(cwd, cwdNames,
                  Text("cd: {0}: No such directory", <<Head(pathParts)>>))
  ELSE CdLoop(Tail(pathParts), Append(cwd, match.axNodeId),
              Append(cwdNames, match.name))

\* the body of the for loop of handleCd from the lookup of the part on:
\* match is what findChildByName found for the first of pathParts
CdInto(match, pathParts, cwd, cwdNames) ==
  IF match = NoVFS
    THEN CdResult(cwd, cwdNames,
                  Text("cd: {0}: No such directory", <<Head(pathParts)>>))
  ELSE IF ~match.isDirectory
    THEN CdResult(cwd, cwdNames,
                  Text("cd: {0}: Not a directory", <<Head(pathParts)>>))
  ELSE CdLoop(Tail(pathParts), Append(cwd, match.axNodeId),
              Append(cwdNames, match.name))

\* the for loop of handleCd over the pathParts that are left
CdLoop(pathParts, cwd, cwdNames) ==
  IF pathParts = <<>> THEN CdResult(cwd, cwdNames, Text("", <<>>))
  ELSE IF Head(pathParts) = DotDot
    THEN CdLoop(Tail(pathParts),
                IF Len(cwd) > 1 THEN Front(cwd) ELSE cwd,
                IF Len(cwd) > 1 THEN Front(cwdNames) ELSE cwdNames)
  ELSE IF Len(cwd) = 0 THEN CdResult(cwd, cwdNames, Caught(NoCwd))
  ELSE CdInto(findChildByName(Last(cwd), Head(pathParts), nodeMap),
              pathParts, cwd, cwdNames)

\* the end of handleCd below undoing the parts it applied when a later part
\* failed
CdRolledBack(args, done) ==
  /\ state' = IF done.out.text # "" THEN state
              ELSE [state EXCEPT !.cwd = done.cwd, !.cwdNames = done.cwdNames]
  /\ Reply("cd", args, done.out)

\* the end of handleCd for a path: the state is as the for loop left it,
\* whether it returned early or not
CdDone(args, done) ==
  /\ state' = [state EXCEPT !.cwd = done.cwd, !.cwdNames = done.cwdNames]
  /\ Reply("cd", args, done.out)

\* handleCd below with ".." taking the last id from cwd and leaving cwdNames
\* as it is
handleCdKeepingNames(args) ==
  /\ UNCHANGED <<nodeMap, cdp, treeTab, axTree, pending, mcp, page>>
  /\ IF ~ensureAttached
       THEN /\ Reply("cd", args, Caught(NotAttached))
            /\ UNCHANGED state
     ELSE IF Len(args) = 0 \/ args[1] = Slash
       THEN /\ state' = ResetToRoot(state, nodeMap)
            /\ Reply("cd", args, Text("", <<>>))
     ELSE IF args[1] = DotDot
       THEN /\ state' = IF Len(state.cwd) > 1
                          THEN [state EXCEPT !.cwd = Front(@)]
                          ELSE state
            /\ Reply("cd", args, Text("", <<>>))
     ELSE CdDone(args, CdLoop(SelectSeq(Split(args[1], "/"), NonEmpty),
                              state.cwd, state.cwdNames))

handleCd(args) ==
  /\ UNCHANGED <<nodeMap, cdp, treeTab, axTree, pending, mcp, page>>
  /\ IF ~ensureAttached
       THEN /\ Reply("cd", args, Caught(NotAttached))
            /\ UNCHANGED state
     ELSE IF Len(args) = 0 \/ args[1] = Slash
       THEN /\ state' = ResetToRoot(state, nodeMap)
            /\ Reply("cd", args, Text("", <<>>))
     ELSE IF args[1] = DotDot
       THEN /\ state' = IF Len(state.cwd) > 1
                          THEN [state EXCEPT !.cwd = Front(@),
                                             !.cwdNames = Front(@)]
                          ELSE state
            /\ Reply("cd", args, Text("", <<>>))
     ELSE CdDone(args, CdLoop(SelectSeq(Split(args[1], "/"), NonEmpty),
                              state.cwd, state.cwdNames))

\* the text of handlePwd without a slice(1): a leading "/" before the "/"
\* that stands for the root
pwdOfWholeCwdNames(cwdNames) ==
  IF Len(cwdNames) <= 1 THEN Slash ELSE Slash \o Join(cwdNames, Slash)

\* the text handlePwd returns
pwdOf(cwdNames) ==
  IF Len(cwdNames) <= 1 THEN Slash ELSE Slash \o Join(Tail(cwdNames), Slash)

handlePwd ==
  /\ Reply("pwd", <<>>, Text("{0}", <<pwdOf(state.cwdNames)>>))
  /\ UNCHANGED <<state, nodeMap, cdp, treeTab, axTree, pending, mcp, page>>

\* ---------------------------------------------------------------- ls, tree

\* lines.join("\r\n") as the text of a command
Lines(lines) == [text |-> "{lines}", with |-> lines]

\* a string shown in the colour of the escape ESC[<sgr>m
Shown(sgr, text) == [sgr |-> sgr, text |-> text]

INTERACTIVE_COLOR(node) ==
  CASE node.role = "button" -> Shown("1;32", node.name)
    [] node.role = "link" -> Shown("1;35", node.name)
    [] node.role \in {"textbox", "searchbox", "combobox"} -> Shown("1;33", node.name)
    [] node.role \in {"checkbox", "radio", "switch"} -> Shown("1;36", node.name)
    [] OTHER -> Shown("37", node.name)

\* `${child.name}/` in the colour of directories
DirColor(node) == Shown("1;34", node.name \o Slash)

\* the width child.role is padded to in the long format
RolePad == 14

\* String.prototype.padEnd with spaces
padEnd(text, n) == text \o [i \in 1..(n - Len(text)) |-> " "]

\* Array.prototype.includes
includes(array, word) == \E i \in DOMAIN array : array[i] = word

\* the argument lists of ls
LsArgs == {<<>>, << <<"-","l">> >>, << <<"-","a">> >>}

\* the name of an entry as ls and tree show it
Display(child) ==
  IF child.isDirectory THEN DirColor(child) ELSE INTERACTIVE_COLOR(child)

\* the line of ls for an entry
LsLine(child, longFormat) ==
  IF longFormat
    THEN Shown(Display(child).sgr,
               <<IF child.isDirectory THEN "d" ELSE "-">> \o <<" ">>
                 \o padEnd(Spell(child.role), RolePad) \o <<" ">>
                 \o Display(child).text)
    ELSE Display(child)

\* the text of handleLs for the children of the current node
LsText(children, longFormat) ==
  IF Len(children) = 0 THEN Text("(empty directory)", <<>>)
  ELSE Lines([i \in DOMAIN children |-> LsLine(children[i], longFormat)])

\* handleLs below with deduplicateName renaming the nodes of the NodeMap
\* themselves
handleLsRenamingNodes(args) ==
  /\ UNCHANGED <<state, cdp, treeTab, axTree, pending, mcp, page>>
  /\ IF ~ensureAttached
       THEN Reply("ls", args, Caught(NotAttached)) /\ UNCHANGED nodeMap
     ELSE IF Len(state.cwd) = 0
       THEN Reply("ls", args, Caught(NoCwd)) /\ UNCHANGED nodeMap
     ELSE LET children == getChildVFSNodes(Last(state.cwd), nodeMap)
          IN  /\ Reply("ls", args,
                       LsText(children,
                              \/ includes(args, <<"-","l">>)
                              \/ includes(args, <<"-","-","l","o","n","g">>)))
              /\ nodeMap' =
                   [i \in DOMAIN nodeMap |->
                      IF \E p \in DOMAIN children : children[p].axNodeId = nodeMap[i].nodeId
                        THEN [nodeMap[i] EXCEPT !.name =
                                children[CHOOSE p \in DOMAIN children :
                                           children[p].axNodeId = nodeMap[i].nodeId].name]
                        ELSE nodeMap[i]]

handleLs(args) ==
  /\ UNCHANGED <<state, nodeMap, cdp, treeTab, axTree, pending, mcp, page>>
  /\ IF ~ensureAttached THEN Reply("ls", args, Caught(NotAttached))
     ELSE IF Len(state.cwd) = 0 THEN Reply("ls", args, Caught(NoCwd))
     ELSE Reply("ls", args,
                LsText(getChildVFSNodes(Last(state.cwd), nodeMap),
                       \/ includes(args, <<"-","l">>)
                       \/ includes(args, <<"-","-","l","o","n","g">>)))

\* the depth of tree when no argument is given
DefaultDepth == 2

\* NaN
NaN == [nan |-> TRUE]

\* the digits at the head of text, as far as they go
RECURSIVE LeadingDigits(_)
LeadingDigits(text) ==
  IF text = <<>> \/ Head(text) \notin Range(DigitChars) THEN <<>>
  ELSE <<Head(text)>> \o LeadingDigits(Tail(text))

\* the number that decimal digits spell
RECURSIVE DigitsValue(_)
DigitsValue(digits) ==
  IF digits = <<>> THEN 0
  ELSE 10 * DigitsValue(Front(digits))
         + (CHOOSE d \in 0..9 : DigitChars[d + 1] = Last(digits))

\* parseInt(text, 10)
parseInt(text) ==
  LET body   == TrimLeft(text)
      signed == body # <<>> /\ Head(body) \in {"+", "-"}
      digits == LeadingDigits(IF signed THEN Tail(body) ELSE body)
  IN  IF digits = <<>> THEN NaN
      ELSE [nan |-> FALSE,
            n   |-> IF signed /\ Head(body) = "-" THEN 0 - DigitsValue(digits)
                    ELSE DigitsValue(digits)]

\* depth >= maxDepth, false when maxDepth is NaN
DepthReached(depth, maxDepth) == ~maxDepth.nan /\ depth >= maxDepth.n

\* the connectors of tree, written in ASCII: "+-- " for the last child's
\* corner, "|-- " for a tee, "|   " for the bar that continues
LastConnector == <<"+","-","-"," ">>

TeeConnector == <<"|","-","-"," ">>

LastPrefix == <<" "," "," "," ">>

BarPrefix == <<"|"," "," "," ">>

\* the lines buildTreeLines pushes for the children from the i-th on
RECURSIVE buildTreeLines(_, _, _, _)
RECURSIVE TreeChildren(_, _, _, _, _)
TreeChildren(children, i, prefix, maxDepth, depth) ==
  IF i > Len(children) THEN <<>>
  ELSE LET child   == children[i]
           isLast  == i = Len(children)
           display == Display(child)
           line    == Shown(display.sgr,
                            prefix \o (IF isLast THEN LastConnector ELSE TeeConnector)
                                   \o display.text)
           below   == IF child.isDirectory
                        THEN buildTreeLines(child.axNodeId,
                               prefix \o (IF isLast THEN LastPrefix ELSE BarPrefix),
                               maxDepth, depth + 1)
                        ELSE <<>>
       IN  <<line>> \o below \o TreeChildren(children, i + 1, prefix, maxDepth, depth)

buildTreeLines(parentId, prefix, maxDepth, depth) ==
  IF DepthReached(depth, maxDepth) THEN <<>>
  ELSE TreeChildren(getChildVFSNodes(parentId, nodeMap), 1, prefix, maxDepth, depth)

\* the argument lists of tree
TreeArgs == {<<>>, << <<"0">> >>, << <<"1">> >>, << <<"-","1">> >>, << <<"x">> >>}

handleTree(args) ==
  /\ UNCHANGED <<state, nodeMap, cdp, treeTab, axTree, pending, mcp, page>>
  /\ IF ~ensureAttached THEN Reply("tree", args, Caught(NotAttached))
     ELSE IF Len(state.cwd) = 0 THEN Reply("tree", args, Caught(NoCwd))
     ELSE LET maxDepth    == IF Len(args) > 0 /\ args[1] # <<>> THEN parseInt(args[1])
                             ELSE [nan |-> FALSE, n |-> DefaultDepth]
              currentId   == Last(state.cwd)
              currentNode == MapGet(nodeMap, currentId)
              rootName    == IF currentNode # NoNode THEN generateNodeName(currentNode)
                             ELSE Slash
          IN  Reply("tree", args,
                    Lines(<<Shown("1;34", rootName \o Slash)>>
                            \o buildTreeLines(currentId, <<>>, maxDepth, 0)))

\* ------------------------------------------------- cat, click, focus, type

\* the names cat, click and focus are given: a directory of the pages and a
\* button of the shop page
EntryNames == {<<"f","o","r","m">>, <<"o","k","_","b","t","n">>}

\* the argument lists of cat, click and focus
EntryArgs == {<<>>} \cup {<<name>> : name \in EntryNames}

\* the longest text cat shows
CatTextMax == 500

\* what cdp.getTextContent can answer: NoString when it throws, otherwise
\* the text of the element, here blank, short, or longer than cat shows
TextContents ==
  {NoString, <<" ">>, <<" ","h","i"," ">>, [i \in 1..(CatTextMax + 1) |-> "x"]}

\* a line of cat: a label and the string after it
Labelled(label, text) == [label |-> label, text |-> text]

\* a value that an if takes as true: a string that is there and not empty
Truthy(value) == value # NoString /\ value # <<>>

\* the text of handleCat for the entry that findChildByName found; read is
\* what cdp.getTextContent answers, NoString when it throws
CatText(match, targetName, read) ==
  IF match = NoVFS THEN Text("cat: {0}: No such file", <<targetName>>)
  ELSE Lines(
         << Labelled("---", match.name),
            Labelled("Role:", Spell(match.role)),
            Labelled("AXID:", match.axNodeId) >>
         \o (IF Truthy(match.value)
               THEN <<Labelled("Value:", match.value)>> ELSE <<>>)
         \o (IF match.backendDOMNodeId # 0 /\ read # NoString /\ Trim(read) # <<>>
               THEN << Labelled("Text:", <<>>),
                       Labelled("", sliceTo(Trim(read), CatTextMax)) >>
                    \o (IF Len(read) > CatTextMax
                          THEN <<Labelled("... chars total", NumChars(Len(read)))>>
                          ELSE <<>>)
               ELSE <<>>))

handleCat(args, text) ==
  /\ UNCHANGED <<state, nodeMap, cdp, treeTab, axTree, pending, mcp, page>>
  /\ IF ~ensureAttached THEN Reply("cat", args, Caught(NotAttached))
     ELSE IF Len(args) = 0 THEN Reply("cat", args, Text("Usage: cat <name>", <<>>))
     ELSE IF Len(state.cwd) = 0 THEN Reply("cat", args, Caught(NoCwd))
     ELSE Reply("cat", args,
                CatText(findChildByName(Last(state.cwd), args[1], nodeMap), args[1],
                        IF cdp.attachedTabId = NoTab THEN NoString ELSE text))

\* how the two ways of clicking can end
ClickOutcomes == {"clicked", "clickedByCoordinates", "fails"}

\* the text of handleClick for the entry that findChildByName found
ClickText(match, targetName, outcome) ==
  IF match = NoVFS THEN Text("click: {0}: No such element", <<targetName>>)
  ELSE IF match.backendDOMNodeId = 0
    THEN Text("click: {0}: No DOM node backing (AX-only node)", <<targetName>>)
  ELSE IF cdp.attachedTabId = NoTab
    THEN Text("click failed: " \o CdpNotAttached, <<>>)
  ELSE IF outcome = "clicked"
    THEN Text("Clicked: {0} ({1})", <<match.name, Spell(match.role)>>)
  ELSE IF outcome = "clickedByCoordinates"
    THEN Text("Clicked (coords): {0} ({1})", <<match.name, Spell(match.role)>>)
  ELSE Text("click failed: " \o ChromeError, <<>>)

handleClick(args, outcome) ==
  /\ UNCHANGED <<state, nodeMap, cdp, treeTab, axTree, pending, mcp, page>>
  /\ IF ~ensureAttached THEN Reply("click", args, Caught(NotAttached))
     ELSE IF Len(args) = 0 THEN Reply("click", args, Text("Usage: click <name>", <<>>))
     ELSE IF Len(state.cwd) = 0 THEN Reply("click", args, Caught(NoCwd))
     ELSE Reply("click", args,
                ClickText(findChildByName(Last(state.cwd), args[1], nodeMap),
                          args[1], outcome))

\* how a call of the actuator can end
SendOutcomes == {"ok", "fails"}

\* the text of handleFocus for the entry that findChildByName found
FocusText(match, targetName, outcome) ==
  IF match = NoVFS THEN Text("focus: {0}: No such element", <<targetName>>)
  ELSE IF match.backendDOMNodeId = 0
    THEN Text("focus: {0}: No DOM node backing", <<targetName>>)
  ELSE IF cdp.attachedTabId = NoTab THEN Caught(CdpNotAttached)
  ELSE IF outcome = "fails" THEN Caught(ChromeError)
  ELSE Text("Focused: {0}", <<match.name>>)

handleFocus(args, outcome) ==
  /\ UNCHANGED <<state, nodeMap, cdp, treeTab, axTree, pending, mcp, page>>
  /\ IF ~ensureAttached THEN Reply("focus", args, Caught(NotAttached))
     ELSE IF Len(args) = 0 THEN Reply("focus", args, Text("Usage: focus <name>", <<>>))
     ELSE IF Len(state.cwd) = 0 THEN Reply("focus", args, Caught(NoCwd))
     ELSE Reply("focus", args,
                FocusText(findChildByName(Last(state.cwd), args[1], nodeMap),
                          args[1], outcome))

\* the argument lists of type
TypeArgs == {<<>>, << <<"h","i">> >>, << <<"a">>, <<"b">> >>}

handleType(args, outcome) ==
  /\ UNCHANGED <<state, nodeMap, cdp, treeTab, axTree, pending, mcp, page>>
  /\ IF ~ensureAttached THEN Reply("type", args, Caught(NotAttached))
     ELSE IF Len(args) = 0 THEN Reply("type", args, Text("Usage: type <text>", <<>>))
     ELSE LET text == Join(args, <<" ">>)
          IN  IF text # <<>> /\ cdp.attachedTabId = NoTab
                THEN Reply("type", args, Caught(CdpNotAttached))
              ELSE IF text # <<>> /\ outcome = "fails"
                THEN Reply("type", args, Caught(ChromeError))
              ELSE Reply("type", args,
                         Text("Typed {0} characters", <<NumChars(Len(text))>>))

\* ------------------------------------------------------------------- grep

\* String.prototype.includes
Includes(text, pattern) ==
  \E i \in 0..(Len(text) - Len(pattern)) :
    SubSeq(text, i + 1, i + Len(pattern)) = pattern

\* the argument lists of grep: a part of a name in upper case, a role, a
\* letter of a role and of a value, and what the tool agentshell_grep sends
\* for a recursive search
GrepArgs ==
  {<<>>, << <<"B","T","N">> >>, << <<"l","i","s","t">> >>, << <<"x">> >>,
   << <<"-","r">>, <<"b","t","n">> >>}

\* children.filter of handleGrep
GrepMatches(children, pattern) ==
  LET hit(c) == \/ Includes(toLowerCase(c.name), pattern)
                \/ Includes(toLowerCase(Spell(c.role)), pattern)
                \/ (Truthy(c.value) /\ Includes(toLowerCase(c.value), pattern))
  IN  SelectSeq(children, hit)

\* GrepText below without the no-match text: the join of no lines
GrepTextJoined(matches, pattern) ==
  Lines([i \in DOMAIN matches |->
           [icon |-> IF matches[i].isDirectory THEN "folder" ELSE "page",
            name |-> matches[i].name,
            role |-> Spell(matches[i].role)]])

\* the text of handleGrep for the matches
GrepText(matches, pattern) ==
  IF Len(matches) = 0 THEN Text("No matches for '{0}'", <<pattern>>)
  ELSE Lines([i \in DOMAIN matches |->
                [icon |-> IF matches[i].isDirectory THEN "folder" ELSE "page",
                 name |-> matches[i].name,
                 role |-> Spell(matches[i].role)]])

handleGrep(args) ==
  /\ UNCHANGED <<state, nodeMap, cdp, treeTab, axTree, pending, mcp, page>>
  /\ IF ~ensureAttached THEN Reply("grep", args, Caught(NotAttached))
     ELSE IF Len(args) = 0 THEN Reply("grep", args, Text("Usage: grep <pattern>", <<>>))
     ELSE IF Len(state.cwd) = 0 THEN Reply("grep", args, Caught(NoCwd))
     ELSE Reply("grep", args,
                GrepText(GrepMatches(getChildVFSNodes(Last(state.cwd), nodeMap),
                                     toLowerCase(args[1])),
                         toLowerCase(args[1])))

\* ----------------------------------------------------------------- whoami

\* undefined, as the expirationDate of a session cookie
NoDate == -1

\* a cookie of chrome.cookies.getAll: expirationDate in seconds since the
\* epoch
Cookie(name, expirationDate) == [name |-> name, expirationDate |-> expirationDate]

\* what chrome.cookies.getAll can answer
CookieJars ==
  { <<>>,
    << Cookie(<<"t","h","e","m","e">>, NoDate), Cookie(<<"S","I","D">>, NoDate) >>,
    << Cookie(<<"j","w","t">>, 90061) >> }

\* the alternatives of /session|sid|auth|token|jwt|user/i
SessionWords ==
  { <<"s","e","s","s","i","o","n">>, <<"s","i","d">>, <<"a","u","t","h">>,
    <<"t","o","k","e","n">>, <<"j","w","t">>, <<"u","s","e","r">> }

\* n in two decimal digits
TwoDigits(n) == NumChars(n \div 10) \o NumChars(n % 10)

\* new Date(seconds * 1000).toISOString(), for a time in January 1970
toISOString(seconds) ==
  <<"1","9","7","0","-","0","1","-">> \o TwoDigits(seconds \div 86400 + 1)
    \o <<"T">> \o TwoDigits((seconds % 86400) \div 3600)
    \o <<":">> \o TwoDigits((seconds % 3600) \div 60)
    \o <<":">> \o TwoDigits(seconds % 60) \o <<".","0","0","0","Z">>

\* window.location.href of the attached page
PageUrl == <<"h","t","t","p","s",":","/","/","a",".","t","e","s","t","/">>

\* how the external calls of handleWhoami can end
WhoamiOutcomes == {"urlFails", "cookiesFail", "ok"}

handleWhoami(outcome, cookies) ==
  /\ UNCHANGED <<state, nodeMap, cdp, treeTab, axTree, pending, mcp, page>>
  /\ IF state.attachedTabId = NoTab
       THEN Reply("whoami", <<>>, Text("Not attached. Run 'attach' first.", <<>>))
     ELSE IF cdp.attachedTabId = NoTab THEN Reply("whoami", <<>>, Caught(CdpNotAttached))
     ELSE IF outcome # "ok" THEN Reply("whoami", <<>>, Caught(ChromeError))
     ELSE LET isSession(c) == \E w \in SessionWords : Includes(toLowerCase(c.name), w)
              found        == SelectSeq(cookies, isSession)
          IN  Reply("whoami", <<>>, Lines(
                <<Labelled("URL:", PageUrl)>>
                \o (IF found # <<>>
                      THEN << Labelled("Status:", <<>>) @@ [status |-> "Authenticated"],
                              Labelled("Via:", found[1].name) >>
                           \o (IF found[1].expirationDate \notin {NoDate, 0}
                                 THEN <<Labelled("Expires:",
                                                 toISOString(found[1].expirationDate))>>
                                 ELSE <<>>)
                      ELSE << Labelled("Status:", <<>>)
                                @@ [status |-> "Guest (no session cookie detected)"] >>)
                \o <<Labelled("Total cookies:", NumChars(Len(cookies)))>>))

\* ------------------------------------------------------------ env, export

handleEnv ==
  /\ UNCHANGED <<state, nodeMap, cdp, treeTab, axTree, pending, mcp, page>>
  /\ Reply("env", <<>>,
           Lines([i \in DOMAIN state.env |->
                    state.env[i].key \o <<"=">> \o state.env[i].value]))

\* String.prototype.indexOf of a character, counted from 0; -1 when absent
indexOf(text, c) ==
  IF \E i \in DOMAIN text : text[i] = c
    THEN (CHOOSE i \in DOMAIN text : text[i] = c /\ \A j \in 1..(i - 1) : text[j] # c) - 1
    ELSE -1

\* state.env[key] = value, for a key that is not an array index: a key that
\* is there keeps its place, a new key goes last
envSet(env, key, value) ==
  IF \E i \in DOMAIN env : env[i].key = key
    THEN [i \in DOMAIN env |-> IF env[i].key = key THEN EnvEntry(key, value) ELSE env[i]]
    ELSE Append(env, EnvEntry(key, value))

\* the argument lists of export
ExportArgs ==
  {<<>>, << <<"F">> >>, << <<"F","=","1">> >>, << <<"F">>, <<"=","2">> >>}

handleExport(args) ==
  /\ UNCHANGED <<nodeMap, cdp, treeTab, axTree, pending, mcp, page>>
  /\ IF Len(args) = 0
       THEN /\ Reply("export", args, Text("Usage: export KEY=VALUE", <<>>))
            /\ UNCHANGED state
     ELSE LET joined  == Join(args, <<" ">>)
              eqIndex == indexOf(joined, "=")
              key     == Trim(SubSeq(joined, 1, eqIndex))
              value   == Trim(SubSeq(joined, eqIndex + 2, Len(joined)))
          IN  IF eqIndex = -1
                THEN /\ Reply("export", args, Text("Usage: export KEY=VALUE", <<>>))
                     /\ UNCHANGED state
                ELSE /\ state' = [state EXCEPT !.env = envSet(@, key, value)]
                     /\ Reply("export", args, Text("{0}={1}", <<key, value>>))

\* ------------------------------------------- help, clear, unknown commands

handleHelp ==
  /\ UNCHANGED <<state, nodeMap, cdp, treeTab, axTree, pending, mcp, page>>
  /\ Reply("help", <<>>, Text("AgentShell - DOM as a Filesystem ...", <<>>))

\* case "clear" of executeCommand
handleClear ==
  /\ UNCHANGED <<state, nodeMap, cdp, treeTab, axTree, pending, mcp, page>>
  /\ Reply("clear", <<>>, Text("ESC[2JESC[H", <<>>))

\* command words that executeCommand has no case for
UnknownWords == {<<"f","i","n","d">>}

\* the default case of executeCommand
handleDefault(cmd) ==
  /\ UNCHANGED <<state, nodeMap, cdp, treeTab, axTree, pending, mcp, page>>
  /\ Reply("default", <<>>,
           Text("agentshell: {0}: command not found\r\nType 'help' for available commands.",
                <<cmd>>))

\* ------------------------------------------------------------------- next

\* the navigation commands, one at a time
Next ==
  \/ \E tab \in Tabs \cup {NoTab}, outcome \in AttachOutcomes :
       \E axNodes \in (IF tab # NoTab /\ outcome = "ok" THEN Pages ELSE {<<>>}) :
         handleAttach(tab, outcome, axNodes)
  \/ handleDetach
  \/ \E outcome \in RefreshOutcomes :
       \E axNodes \in (IF outcome = "ok" THEN Pages ELSE {<<>>}) :
         handleRefresh(outcome, axNodes)
  \/ \E args \in CdArgs : handleCd(args)
  \/ handlePwd

Spec == Init /\ [][Next]_vars

\* the targets of cd when every command is issued
ShellCdArgs == {<<>>, <<Slash>>, <<DotDot>>} \cup {<<name>> : name \in SegNames}

\* every command of executeCommand, one at a time
NextShell ==
  \/ \E tab \in Tabs \cup {NoTab}, outcome \in AttachOutcomes :
       \E axNodes \in (IF tab # NoTab /\ outcome = "ok" THEN ShellPages ELSE {<<>>}) :
         handleAttach(tab, outcome, axNodes)
  \/ handleDetach
  \/ \E outcome \in RefreshOutcomes :
       \E axNodes \in (IF outcome = "ok" THEN ShellPages ELSE {<<>>}) :
         handleRefresh(outcome, axNodes)
  \/ \E args \in ShellCdArgs : handleCd(args)
  \/ handlePwd
  \/ handleHelp
  \/ \E args \in LsArgs : handleLs(args)
  \/ \E args \in EntryArgs :
       \E text \in (IF ensureAttached /\ args # <<>> /\ cdp.attachedTabId # NoTab
                      THEN TextContents ELSE {NoString}) :
         handleCat(args, text)
  \/ \E args \in EntryArgs :
       \E outcome \in (IF ensureAttached /\ args # <<>> /\ cdp.attachedTabId # NoTab
                         THEN ClickOutcomes ELSE {"fails"}) :
         handleClick(args, outcome)
  \/ \E args \in EntryArgs :
       \E outcome \in (IF ensureAttached /\ args # <<>> /\ cdp.attachedTabId # NoTab
                         THEN SendOutcomes ELSE {"fails"}) :
         handleFocus(args, outcome)
  \/ \E args \in TypeArgs :
       \E outcome \in (IF ensureAttached /\ args # <<>> /\ cdp.attachedTabId # NoTab
                         THEN SendOutcomes ELSE {"fails"}) :
         handleType(args, outcome)
  \/ \E args \in GrepArgs : handleGrep(args)
  \/ \E args \in TreeArgs : handleTree(args)
  \/ \E outcome \in WhoamiOutcomes :
       \E cookies \in (IF outcome = "ok" /\ state.attachedTabId # NoTab
                              /\ cdp.attachedTabId # NoTab
                         THEN CookieJars ELSE {<<>>}) :
         handleWhoami(outcome, cookies)
  \/ handleEnv
  \/ \E args \in ExportArgs : handleExport(args)
  \/ handleClear
  \/ \E cmd \in UnknownWords : handleDefault(cmd)

SpecShell == Init /\ [][NextShell]_vars

\* ------------------------------------------- the mapper on the trees drawn

\* The number of children of the root that are drawn.
MaxKids == 3

\* the ids of the drawn trees: the root, its i-th child, that child's own
\* child and grandchild, and the node of the j-th naming case
RootId == <<"r">>

KidId(i) == <<"k">> \o NumChars(i)

GrandId(i) == <<"g">> \o NumChars(i)

GreatId(i) == <<"h">> \o NumChars(i)

CaseId(j) == <<"c">> \o NumChars(j)

\* what a child of the root can be: the nodes that the tree holds for the
\* child id, none when the id resolves to nothing
Kinds ==
  {"button", "text", "wrapsButton", "wrapsIgnored", "wrapsNone", "wrapsAbsent",
   "ignored", "none", "absent", "linkOfText", "list", "wrapsList",
   "wrapsWrapper"}

KidNodes(kind, i) ==
  CASE kind = "button" ->
         << AXNode(KidId(i), "button", <<"O","K">>, FALSE, <<>>, 100 + i, NoString) >>
    [] kind = "text" ->
         << AXNode(KidId(i), "StaticText", <<"o","k","_","b","t","n","_","2">>, FALSE, <<>>, 0, NoString) >>
    [] kind = "wrapsButton" ->
         << AXNode(KidId(i), "generic", <<>>, FALSE, <<GrandId(i)>>, 0, NoString),
            AXNode(GrandId(i), "button", <<"O","K">>, FALSE, <<>>, 200 + i, NoString) >>
    [] kind = "wrapsIgnored" ->
         << AXNode(KidId(i), "generic", <<>>, FALSE, <<GrandId(i)>>, 0, NoString),
            AXNode(GrandId(i), "button", <<"O","K">>, TRUE, <<>>, 200 + i, NoString) >>
    [] kind = "wrapsNone" ->
         << AXNode(KidId(i), "generic", <<>>, FALSE, <<GrandId(i)>>, 0, NoString),
            AXNode(GrandId(i), "none", <<>>, FALSE, <<>>, 0, NoString) >>
    [] kind = "wrapsAbsent" ->
         << AXNode(KidId(i), "generic", <<>>, FALSE, <<GrandId(i)>>, 0, NoString) >>
    [] kind = "ignored" ->
         << AXNode(KidId(i), "button", <<"O","K">>, TRUE, <<>>, 100 + i, NoString) >>
    [] kind = "none" ->
         << AXNode(KidId(i), "none", <<"O","K">>, FALSE, <<>>, 0, NoString) >>
    [] kind = "absent" -> <<>>
    [] kind = "linkOfText" ->
         << AXNode(KidId(i), "link", <<"U","p">>, FALSE, <<GrandId(i)>>, 100 + i, NoString),
            AXNode(GrandId(i), "StaticText", <<"U","p">>, FALSE, <<>>, 0, NoString) >>
    [] kind = "list" ->
         << AXNode(KidId(i), "list", <<"N","a","v">>, FALSE, <<>>, 0, NoString) >>
    [] kind = "wrapsList" ->
         << AXNode(KidId(i), "generic", <<>>, FALSE, <<GrandId(i)>>, 0, NoString),
            AXNode(GrandId(i), "list", <<"N","a","v">>, FALSE, <<>>, 0, NoString) >>
    [] kind = "wrapsWrapper" ->
         << AXNode(KidId(i), "generic", <<>>, FALSE, <<GrandId(i)>>, 0, NoString),
            AXNode(GrandId(i), "generic", <<>>, FALSE, <<GreatId(i)>>, 0, NoString),
            AXNode(GreatId(i), "button", <<"O","K">>, FALSE, <<>>, 300 + i, NoString) >>

\* the naming cases: every combination of a name that is absent, stripped to
\* nothing, blank or kept, of a description that is absent, stripped to
\* nothing or kept, and of a role that is absent, empty, in the suffix table
\* or not
CaseNames == << <<>>, <<"!","?">>, <<" "," ">>, <<"G","o"," ","!">> >>

CaseDescriptions == << <<>>, <<"#">>, <<"H","i","n","t">> >>

CaseRoles == << Undef, "", "button", "navigation", "heading" >>

CaseCount == Len(CaseNames) * Len(CaseDescriptions) * Len(CaseRoles)

CaseNode(j) ==
  [AXNode(CaseId(j),
          CaseRoles[((j - 1) % Len(CaseRoles)) + 1],
          CaseNames[(((j - 1) \div Len(CaseRoles)) % Len(CaseNames)) + 1],
          FALSE, <<>>, 0, NoString)
     EXCEPT !.description =
       CaseDescriptions[((j - 1) \div (Len(CaseRoles) * Len(CaseNames))) + 1]]

\* the nodes of the children of the root, of the kinds given, one after
\* the other
RECURSIVE KidsNodes(_, _)
KidsNodes(kinds, i) ==
  IF i > Len(kinds) THEN <<>>
  ELSE KidNodes(kinds[i], i) \o KidsNodes(kinds, i + 1)

\* the tree Accessibility.getFullAXTree answers for children of these kinds
Tree(kinds) ==
  << AXNode(RootId, "RootWebArea", <<"T">>, FALSE,
            [i \in DOMAIN kinds |-> KidId(i)], 0, NoString) >>
  \o KidsNodes(kinds, 1)

\* the tree it answers for a page with the j-th naming case
CaseTree(j) ==
  << AXNode(RootId, "RootWebArea", <<"T">>, FALSE, <<CaseId(j)>>, 0, NoString),
     CaseNode(j) >>

Trees ==
  {Tree(kinds) : kinds \in [1..MaxKids -> Kinds]}
    \cup {CaseTree(j) : j \in 1..CaseCount}

\* the kernel after attach has read one of the trees from tab 1
InitMapper ==
  \E axNodes \in Trees :
    /\ nodeMap = buildNodeMap(axNodes)
    /\ axTree = axNodes
    /\ treeTab = 1
    /\ cdp = [attachedTabId |-> 1, debuggees |-> {1}, enabled |-> {1}]
    /\ state = ResetToRoot([cwd |-> <<>>,
                            cwdNames |-> <<Slash>>,
                            attachedTabId |-> 1,
                            env |-> << EnvEntry(SHELLKEY, SHELLVAL),
                                       EnvEntry(TERMKEY, TERMVAL),
                                       EnvEntry(PS1KEY, PS1VAL) >>],
                           nodeMap)
    /\ pending = <<>>
    /\ mcp = McpStart(FALSE, FALSE, FALSE)
    /\ page = NoPage
    /\ last = [cmd |-> "attach", args |-> <<>>,
               out |-> Text("Attached to tab {0}\r\n  Title: unknown\r\n  URL:   unknown\r\n  AX Nodes: {1}\r\n",
                            <<NumChars(1), NumChars(Len(nodeMap))>>)]

\* the targets of cd on the drawn trees
MapperCdArgs ==
  { <<DotDot>>, << <<"n","a","v">> >>, << <<"o","k","_","b","t","n">> >>,
    << <<"g","e","n","e","r","i","c","_","k","1">> >>,
    << <<"g","e","n","e","r","i","c","_","g","1">> >>,
    << <<"u","p","_","l","i","n","k">> >> }

\* the commands that read the listings, one at a time
NextMapper ==
  \/ \E args \in LsArgs : handleLs(args)
  \/ \E args \in MapperCdArgs : handleCd(args)
  \/ handlePwd

SpecMapper == InitMapper /\ [][NextMapper]_vars

\* ------------------------------------------- the listener across its awaits

\* The number of calls of the STDIN listener that are suspended at a time.
MaxPending == 2

\* a call of the listener suspended in handleAttach, handleRefresh or
\* handleDetach: the command, the await it is at, the active tab that
\* handleAttach was given, and the tab its debugger command was sent to
Suspended(cmd, at, tab, target) ==
  [cmd |-> cmd, at |-> at, tab |-> tab, target |-> target]

Remove(seq, i) == SubSeq(seq, 1, i - 1) \o SubSeq(seq, i + 1, Len(seq))

\* the call goes on to its next await
Suspend(i, call) == pending' = [pending EXCEPT ![i] = call] /\ UNCHANGED <<mcp, page>>

\* the call returns and the listener posts its text
Return(i, cmd, out) ==
  pending' = Remove(pending, i) /\ Reply(cmd, <<>>, out) /\ UNCHANGED <<mcp, page>>

\* STDIN attach: handleAttach runs up to await chrome.tabs.query
stdinAttach ==
  /\ Len(pending) < MaxPending
  /\ pending' = Append(pending, Suspended("attach", "query", NoTab, NoTab))
  /\ UNCHANGED <<state, nodeMap, cdp, treeTab, axTree, last, mcp, page>>

\* chrome.tabs.query answers: handleAttach runs into cdp.attach, up to its
\* await of chrome.debugger.detach or chrome.debugger.attach, or past it to
\* the await of getFullAXTree when the tab is the one bound already
attachQueried(i, tab) ==
  /\ i \in DOMAIN pending
  /\ pending[i].cmd = "attach" /\ pending[i].at = "query"
  /\ UNCHANGED <<nodeMap, treeTab, axTree>>
  /\ IF tab = NoTab
       THEN /\ Return(i, "attach", Text("Error: No active tab found.", <<>>))
            /\ UNCHANGED <<state, cdp>>
     ELSE IF cdp.attachedTabId = tab
       THEN /\ state' = [state EXCEPT !.attachedTabId = tab]
            /\ Suspend(i, Suspended("attach", "fetch", tab, tab))
            /\ UNCHANGED <<cdp, last>>
     ELSE IF cdp.attachedTabId # NoTab
       THEN /\ cdp' = [cdp EXCEPT !.attachedTabId = NoTab]
            /\ Suspend(i, Suspended("attach", "unbind", tab, cdp.attachedTabId))
            /\ UNCHANGED <<state, last>>
     ELSE /\ Suspend(i, Suspended("attach", "bind", tab, NoTab))
          /\ UNCHANGED <<state, cdp, last>>

\* chrome.debugger.detach calls back inside cdp.attach (the debugger has
\* left the tab it names): chrome.debugger.attach is called
attachUnbound(i) ==
  /\ i \in DOMAIN pending
  /\ pending[i].cmd = "attach" /\ pending[i].at = "unbind"
  /\ cdp' = [cdp EXCEPT !.debuggees = @ \ {pending[i].target},
                     !.enabled = @ \ {pending[i].target}]
  /\ Suspend(i, Suspended("attach", "bind", pending[i].tab, NoTab))
  /\ UNCHANGED <<state, nodeMap, treeTab, axTree, last>>

\* chrome.debugger.attach calls back: with an error handleAttach returns,
\* otherwise the tab is bound and Accessibility.enable is sent
attachBound(i, outcome) ==
  /\ i \in DOMAIN pending
  /\ pending[i].cmd = "attach" /\ pending[i].at = "bind"
  /\ UNCHANGED <<state, nodeMap, treeTab, axTree>>
  /\ IF outcome = "fails"
       THEN /\ Return(i, "attach", Text("Error attaching: " \o ChromeError, <<>>))
            /\ UNCHANGED cdp
       ELSE /\ cdp' = [cdp EXCEPT !.attachedTabId = pending[i].tab,
                                  !.debuggees = @ \cup {pending[i].tab}]
            /\ Suspend(i, Suspended("attach", "enable", pending[i].tab, pending[i].tab))
            /\ UNCHANGED last

\* the enable commands of cdp.attach have called back (the three awaits are
\* taken as one): handleAttach sets state.attachedTabId and sends
\* Accessibility.getFullAXTree to the tab that is bound by now.  When the
\* binding was cleared meanwhile, a later enable throws inside cdp.attach,
\* or the send of getFullAXTree throws after state.attachedTabId is set.
attachEnabled(i, outcome) ==
  /\ i \in DOMAIN pending
  /\ pending[i].cmd = "attach" /\ pending[i].at = "enable"
  /\ UNCHANGED <<nodeMap, treeTab, axTree>>
  /\ IF outcome = "fails"
       THEN /\ Return(i, "attach", Text("Error attaching: " \o ChromeError, <<>>))
            /\ UNCHANGED <<state, cdp>>
     ELSE IF cdp.attachedTabId = NoTab
       THEN /\ state' \in {state, [state EXCEPT !.attachedTabId = pending[i].tab]}
            /\ Return(i, "attach", Text("Error attaching: " \o CdpNotAttached, <<>>))
            /\ UNCHANGED cdp
     ELSE /\ state' = [state EXCEPT !.attachedTabId = pending[i].tab]
          /\ cdp' = [cdp EXCEPT !.enabled = @ \cup {cdp.attachedTabId}]
          /\ Suspend(i, Suspended("attach", "fetch", pending[i].tab, cdp.attachedTabId))
          /\ UNCHANGED last

\* Accessibility.getFullAXTree calls back in handleAttach
attachFetched(i, outcome, axNodes) ==
  /\ i \in DOMAIN pending
  /\ pending[i].cmd = "attach" /\ pending[i].at = "fetch"
  /\ UNCHANGED cdp
  /\ IF outcome = "fails"
       THEN /\ Return(i, "attach", Text("Error attaching: " \o ChromeError, <<>>))
            /\ UNCHANGED <<state, nodeMap, treeTab, axTree>>
       ELSE /\ nodeMap' = buildNodeMap(axNodes)
            /\ treeTab' = pending[i].target
            /\ axTree' = axNodes
            /\ state' = ResetToRoot(state, nodeMap')
            /\ Return(i, "attach",
                 Text("Attached to tab {0}\r\n  Title: unknown\r\n  URL:   unknown\r\n  AX Nodes: {1}\r\n",
                      <<NumChars(pending[i].tab), NumChars(Len(nodeMap'))>>))

\* STDIN refresh: handleRefresh returns at once or runs up to the await of
\* getFullAXTree
stdinRefresh ==
  /\ Len(pending) < MaxPending
  /\ UNCHANGED <<state, nodeMap, cdp, treeTab, axTree>>
  /\ IF state.attachedTabId = NoTab
       THEN /\ Reply("refresh", <<>>, Text("Not attached. Run 'attach' first.", <<>>))
            /\ UNCHANGED <<pending, mcp, page>>
     ELSE IF cdp.attachedTabId = NoTab
       THEN /\ Reply("refresh", <<>>, Caught(CdpNotAttached))
            /\ UNCHANGED <<pending, mcp, page>>
     ELSE /\ pending' = Append(pending,
                          Suspended("refresh", "fetch", NoTab, cdp.attachedTabId))
          /\ UNCHANGED <<last, mcp, page>>

\* Accessibility.getFullAXTree calls back in handleRefresh
refreshFetched(i, outcome, axNodes) ==
  /\ i \in DOMAIN pending
  /\ pending[i].cmd = "refresh" /\ pending[i].at = "fetch"
  /\ UNCHANGED cdp
  /\ IF outcome = "fails"
       THEN /\ Return(i, "refresh", Caught(ChromeError))
            /\ UNCHANGED <<state, nodeMap, treeTab, axTree>>
       ELSE /\ nodeMap' = buildNodeMap(axNodes)
            /\ treeTab' = pending[i].target
            /\ axTree' = axNodes
            /\ state' = ResetToRoot(state, nodeMap')
            /\ Return(i, "refresh",
                 Text("Refreshed. {0} AX nodes loaded.", <<NumChars(Len(nodeMap'))>>))

\* the end of handleDetach, after await cdp.detach()
Detached ==
  /\ state' = [state EXCEPT !.attachedTabId = NoTab,
                            !.cwd = <<>>,
                            !.cwdNames = <<Slash>>]
  /\ nodeMap' = <<>>
  /\ treeTab' = NoTab
  /\ axTree' = <<>>

\* STDIN detach: handleDetach returns at once, or runs to its end when the
\* client has no tab bound, or up to the await of chrome.debugger.detach
stdinDetach ==
  /\ Len(pending) < MaxPending
  /\ IF state.attachedTabId = NoTab
       THEN /\ Reply("detach", <<>>, Text("Not attached to any tab.", <<>>))
            /\ UNCHANGED <<state, nodeMap, cdp, treeTab, axTree, pending, mcp, page>>
     ELSE IF cdp.attachedTabId = NoTab
       THEN /\ Detached
            /\ Reply("detach", <<>>, Text("Detached.", <<>>))
            /\ UNCHANGED <<cdp, pending, mcp, page>>
     ELSE /\ cdp' = [cdp EXCEPT !.attachedTabId = NoTab]
          /\ pending' = Append(pending,
                               Suspended("detach", "unbind", NoTab, cdp.attachedTabId))
          /\ UNCHANGED <<state, nodeMap, treeTab, axTree, last, mcp, page>>

\* chrome.debugger.detach calls back in handleDetach
detachUnbound(i) ==
  /\ i \in DOMAIN pending
  /\ pending[i].cmd = "detach" /\ pending[i].at = "unbind"
  /\ Detached
  /\ Return(i, "detach", Text("Detached.", <<>>))
  /\ cdp' = [cdp EXCEPT !.debuggees = @ \ {pending[i].target},
                     !.enabled = @ \ {pending[i].target}]

\* what Accessibility.getFullAXTree answers between the callbacks
AsyncPages == {PageShop, PageDocs}

\* the targets of cd between the callbacks
AsyncCdArgs == {<<Slash>>, << <<"m","a","i","n">> >>}

\* the messages and the callbacks in any order; ls, cd and pwd have no await
\* before they return
NextAsync ==
  \/ stdinAttach
  \/ \E i \in 1..MaxPending, tab \in Tabs \cup {NoTab} : attachQueried(i, tab)
  \/ \E i \in 1..MaxPending : attachUnbound(i)
  \/ \E i \in 1..MaxPending, outcome \in SendOutcomes : attachBound(i, outcome)
  \/ \E i \in 1..MaxPending, outcome \in SendOutcomes : attachEnabled(i, outcome)
  \/ \E i \in 1..MaxPending, outcome \in SendOutcomes :
       \E axNodes \in (IF outcome = "ok" THEN AsyncPages ELSE {<<>>}) :
         attachFetched(i, outcome, axNodes)
  \/ stdinRefresh
  \/ \E i \in 1..MaxPending, outcome \in SendOutcomes :
       \E axNodes \in (IF outcome = "ok" THEN AsyncPages ELSE {<<>>}) :
         refreshFetched(i, outcome, axNodes)
  \/ stdinDetach
  \/ \E i \in 1..MaxPending : detachUnbound(i)
  \/ handleLs(<<>>)
  \/ \E args \in AsyncCdArgs : handleCd(args)
  \/ handlePwd

SpecAsync == Init /\ [][NextAsync]_vars

\* ------------------------------------------------- the listener on its input

\* the sentinel for a STDIN message that no STDOUT message answers
NoReply == [text |-> Undef, with |-> <<>>]

\* parseCommandLine from the characters that are left: the parts pushed,
\* the part being read, and the quote that is open (Undef for null)
RECURSIVE ParseFrom(_, _, _, _)
ParseFrom(input, parts, current, inQuote) ==
  IF input = <<>>
    THEN IF current # <<>> THEN Append(parts, current) ELSE parts
  ELSE LET char == Head(input)
       IN  IF inQuote # Undef
             THEN IF char = inQuote
                    THEN ParseFrom(Tail(input), parts, current, Undef)
                    ELSE ParseFrom(Tail(input), parts, Append(current, char), inQuote)
           ELSE IF char = "\"" \/ char = "'"
             THEN ParseFrom(Tail(input), parts, current, char)
           ELSE IF char = " " \/ char = "\t"
             THEN IF current # <<>>
                    THEN ParseFrom(Tail(input), Append(parts, current), <<>>, Undef)
                    ELSE ParseFrom(Tail(input), parts, current, Undef)
           ELSE ParseFrom(Tail(input), parts, Append(current, char), Undef)

parseCommandLine(input) == ParseFrom(input, <<>>, <<>>, Undef)

\* the words that the switch of executeCommand has a case for
CommandWords ==
  { <<"h","e","l","p">>, <<"a","t","t","a","c","h">>, <<"d","e","t","a","c","h">>,
    <<"l","s">>, <<"c","d">>, <<"p","w","d">>, <<"c","a","t">>,
    <<"c","l","i","c","k">>, <<"t","y","p","e">>, <<"f","o","c","u","s">>,
    <<"g","r","e","p">>, <<"w","h","o","a","m","i">>, <<"e","n","v">>,
    <<"e","x","p","o","r","t">>, <<"t","r","e","e">>,
    <<"r","e","f","r","e","s","h">>, <<"c","l","e","a","r">> }

\* the external calls of a command that reads or acts on an entry are made
\* when the command gets as far
Reaches(args) == ensureAttached /\ args # <<>> /\ cdp.attachedTabId # NoTab

\* the switch of executeCommand, under every outcome of the external calls
Switch(cmd, args) ==
  \/ cmd = <<"h","e","l","p">> /\ handleHelp
  \/ /\ cmd = <<"a","t","t","a","c","h">>
     /\ \E tab \in Tabs \cup {NoTab}, outcome \in AttachOutcomes :
          \E axNodes \in (IF tab # NoTab /\ outcome = "ok" THEN Pages ELSE {<<>>}) :
            handleAttach(tab, outcome, axNodes)
  \/ cmd = <<"d","e","t","a","c","h">> /\ handleDetach
  \/ cmd = <<"l","s">> /\ handleLs(args)
  \/ cmd = <<"c","d">> /\ handleCd(args)
  \/ cmd = <<"p","w","d">> /\ handlePwd
  \/ /\ cmd = <<"c","a","t">>
     /\ \E text \in (IF Reaches(args) THEN TextContents ELSE {NoString}) :
          handleCat(args, text)
  \/ /\ cmd = <<"c","l","i","c","k">>
     /\ \E outcome \in (IF Reaches(args) THEN ClickOutcomes ELSE {"fails"}) :
          handleClick(args, outcome)
  \/ /\ cmd = <<"t","y","p","e">>
     /\ \E outcome \in (IF Reaches(args) THEN SendOutcomes ELSE {"fails"}) :
          handleType(args, outcome)
  \/ /\ cmd = <<"f","o","c","u","s">>
     /\ \E outcome \in (IF Reaches(args) THEN SendOutcomes ELSE {"fails"}) :
          handleFocus(args, outcome)
  \/ cmd = <<"g","r","e","p">> /\ handleGrep(args)
  \/ /\ cmd = <<"w","h","o","a","m","i">>
     /\ \E outcome \in WhoamiOutcomes :
          \E cookies \in (IF outcome = "ok" /\ state.attachedTabId # NoTab
                                 /\ cdp.attachedTabId # NoTab
                            THEN CookieJars ELSE {<<>>}) :
            handleWhoami(outcome, cookies)
  \/ cmd = <<"e","n","v">> /\ handleEnv
  \/ cmd = <<"e","x","p","o","r","t">> /\ handleExport(args)
  \/ cmd = <<"t","r","e","e">> /\ handleTree(args)
  \/ /\ cmd = <<"r","e","f","r","e","s","h">>
     /\ \E outcome \in RefreshOutcomes :
          \E axNodes \in (IF outcome = "ok" THEN Pages ELSE {<<>>}) :
            handleRefresh(outcome, axNodes)
  \/ cmd = <<"c","l","e","a","r">> /\ handleClear
  \/ cmd \notin CommandWords /\ handleDefault(cmd)

\* the STDIN branch of the listener: await executeCommand(msg.input), then
\* postMessage.  parts[0].toLowerCase() stands before the try: when
\* parseCommandLine returns no part it throws a TypeError, the promise of
\* executeCommand rejects and nothing is posted.
executeCommand(raw) ==
  IF Trim(raw) = <<>>
    THEN /\ Reply("", <<>>, Text("", <<>>))
         /\ UNCHANGED <<state, nodeMap, cdp, treeTab, axTree, pending, mcp, page>>
  ELSE IF parseCommandLine(Trim(raw)) = <<>>
    THEN /\ Reply("", <<>>, NoReply)
         /\ UNCHANGED <<state, nodeMap, cdp, treeTab, axTree, pending, mcp, page>>
  ELSE Switch(toLowerCase(Head(parseCommandLine(Trim(raw)))),
              Tail(parseCommandLine(Trim(raw))))

\* the input lines: every command word, words in upper case and in quotes,
\* a word that is no command, blanks, and a pair of quote characters
RawInputs ==
  { <<"h","e","l","p">>,
    <<"a","t","t","a","c","h">>,
    <<"d","e","t","a","c","h">>,
    <<"r","e","f","r","e","s","h">>,
    <<"l","s">>,
    <<"L","S"," ","-","l">>,
    <<"c","d"," ","f","o","r","m">>,
    <<"c","d"," ",".",".">>,
    <<"c","d"," ","/">>,
    <<"c","d"," ","\"","m","a","i","n","\"">>,
    <<"p","w","d">>,
    <<"c","a","t"," ","o","k","_","b","t","n">>,
    <<"c","l","i","c","k"," ","o","k","_","b","t","n">>,
    <<"f","o","c","u","s"," ","o","k","_","b","t","n">>,
    <<"t","y","p","e"," ","h","i">>,
    <<"g","r","e","p"," ","b","t","n">>,
    <<"t","r","e","e"," ","1">>,
    <<"w","h","o","a","m","i">>,
    <<"e","n","v">>,
    <<"e","x","p","o","r","t"," ","F","=","1">>,
    <<"c","l","e","a","r">>,
    <<"f","i","n","d">>,
    <<"\"","\"">>,
    <<"'","'">>,
    <<" "," ">>,
    <<" ","p","w","d"," ">> }

NextStdin == \E raw \in RawInputs : executeCommand(raw)

SpecStdin == Init /\ [][NextStdin]_vars

\* ------------------------------------------------------- the MCP server

\* Most tool calls drawn in one run of the server.
MaxCalls == 2

\* Most connections made to the WebSocket server in one run of the server.
MaxConnections == 1

\* process.argv: the flags that the tiers and the confirmation read
Flags == {"--allow-write", "--allow-sensitive", "--allow-all", "--no-confirm",
          "--expose-cookies"}

hasFlag(argv, name) == name \in argv

\* the server started with the flags of argv
McpStarted(argv) ==
  [McpStart(hasFlag(argv, "--allow-write") \/ hasFlag(argv, "--allow-all"),
            hasFlag(argv, "--allow-sensitive") \/ hasFlag(argv, "--allow-all"),
            hasFlag(argv, "--no-confirm"))
     EXCEPT !.EXPOSE_COOKIES = hasFlag(argv, "--expose-cookies")]

\* audit(entry): the line is appended to the log file, or the write fails
\* and the failure is ignored.  call, tag and kind are the parts of the
\* entry's text; written tells whether the line reached the file.
Audit(m, call, tag, kind, text) ==
  [m EXCEPT !.log = Append(@, [call |-> call, tag |-> tag, kind |-> kind,
                               text |-> text, written |-> m.logWritable])]

WRITE_COMMANDS == {<<"c","l","i","c","k">>, <<"f","o","c","u","s">>, <<"t","y","p","e">>}

SENSITIVE_COMMANDS == {<<"w","h","o","a","m","i">>}

\* split(/\s+/)[0] of a trimmed string
RECURSIVE FirstWord(_)
FirstWord(cs) ==
  IF cs = <<>> \/ IsSpace(Head(cs)) THEN <<>>
  ELSE <<Head(cs)>> \o FirstWord(Tail(cs))

getCommandTier(command) ==
  LET cmd == toLowerCase(FirstWord(Trim(command)))
  IN  IF cmd \in WRITE_COMMANDS THEN "write"
      ELSE IF cmd \in SENSITIVE_COMMANDS THEN "sensitive"
      ELSE "read"

WriteDisabled ==
  "Write commands (click/focus/type) are disabled. Start the MCP server with --allow-write or --allow-all."

SensitiveDisabled ==
  "Sensitive commands (whoami) are disabled. Start the MCP server with --allow-sensitive or --allow-all."

isCommandAllowed(m, command) ==
  IF getCommandTier(command) = "write" /\ ~m.ALLOW_WRITE
    THEN [allowed |-> FALSE, reason |-> WriteDisabled]
  ELSE IF getCommandTier(command) = "sensitive" /\ ~m.ALLOW_SENSITIVE
    THEN [allowed |-> FALSE, reason |-> SensitiveDisabled]
  ELSE [allowed |-> TRUE, reason |-> Undef]

\* the bytes that readSync takes from the terminal at most
TtyBuffer == 10

\* what the user types at the prompt of confirmAction
TtyAnswers == {<<"y","\n">>, <<"Y","E","S","\n">>, <<"n","\n">>, <<"\n">>}

\* answer === "y" || answer === "yes", of what readSync has read
Approves(typed) ==
  toLowerCase(Trim(sliceTo(typed, TtyBuffer))) \in {<<"y">>, <<"y","e","s">>}

\* the words of the regular expression of redactSensitiveOutput
SecretWords == {<<"c","o","o","k","i","e">>, <<"s","e","s","s","i","o","n">>, <<"t","o","k","e","n">>, <<"j","w","t">>, <<"a","u","t","h">>, <<"s","i","d">>}

\* the ends of the places where one of the words stands in the line
WordEnds(line) ==
  { e \in DOMAIN line :
      \E w \in SecretWords :
        e >= Len(w) /\ toLowerCase(SubSeq(line, e - Len(w) + 1, e)) = w }

\* the end of the first group of the expression in the line, 0 when the
\* line does not match: the first "=" behind the first of the words, and
\* the white space behind it that leaves nine characters at least
PrefixEnd(line) ==
  LET behind == { p \in DOMAIN line :
                    line[p] = "=" /\ \E e \in WordEnds(line) : e < p }
  IN  IF behind = {} THEN 0
      ELSE LET eq == CHOOSE p \in behind : \A o \in behind : p <= o
               ends == { p \in eq..Len(line) :
                           /\ \A j \in (eq + 1)..p : IsSpace(line[j])
                           /\ Len(line) - p >= 9 }
           IN  IF ends = {} THEN 0
               ELSE CHOOSE p \in ends : \A o \in ends : p >= o

\* the replacement of one line: prefix, four characters, ***, the last four
RedactLine(line) ==
  IF PrefixEnd(line) = 0 THEN line
  ELSE SubSeq(line, 1, PrefixEnd(line) + 4) \o <<"*","*","*">>
         \o SubSeq(line, Len(line) - 3, Len(line))

\* the lines that the flag m of the expression tells apart
LinesOf(output) ==
  LET cuts == {0, Len(output) + 1} \cup {i \in DOMAIN output : output[i] = "\n"}
      Cut(k) == CHOOSE c \in cuts : Cardinality({d \in cuts : d < c}) = k
  IN  [k \in 1..(Cardinality(cuts) - 1) |-> SubSeq(output, Cut(k - 1) + 1, Cut(k) - 1)]

redactSensitiveOutput(m, command, output) ==
  IF toLowerCase(FirstWord(Trim(command))) \notin SENSITIVE_COMMANDS THEN output
  ELSE IF ~m.EXPOSE_COOKIES
    THEN LET lines == LinesOf(output)
         IN  Join([i \in DOMAIN lines |-> RedactLine(lines[i])], <<"\n">>)
  ELSE output

\* the length of a result that the audit log keeps
SummaryMax == 80

Summary(result) ==
  IF Len(result) > SummaryMax
    THEN sliceTo(result, SummaryMax) \o <<".",".",".">>
    ELSE result

NotConnected ==
  "Extension not connected. Open the AgentShell side panel and run: connect <token>"

TimedOut == "Command timed out after 30 seconds"

ActionDenied == "Action denied by user."

\* the tag of the audit entries of a command
Tag(command) ==
  IF getCommandTier(command) = "write" THEN "[WRITE] "
  ELSE IF getCommandTier(command) = "sensitive" THEN "[SENSITIVE] "
  ELSE ""

\* a call of executeWithSecurity: where it stands (confirm: in readSync of
\* confirmAction; sent: at the await of sendCommand; done: returned), what
\* it returned, and as history what confirmAction resolved to (<<>> while it
\* has not resolved), whether sixty seconds passed at the prompt, how often
\* resolve or reject of the promise of sendCommand was called, the
\* connection whose RESULT resolved it, and whether a RESULT with its id came
\* when pendingRequests no longer held it
Call(command) ==
  [command |-> command, at |-> "start", approved |-> <<>>,
   waited |-> FALSE, result |-> NoReply,
   settled |-> 0, by |-> NoClient, late |-> FALSE]

Returned(m, i, result) ==
  [m EXCEPT !.calls[i].at = "done", !.calls[i].result = result]

\* a connection to the WebSocket server: the readyState of its socket, the
\* code the server closed it with (0: the server has not closed it), whether
\* the handlers of message, close and error are set on it, and as history
\* the token it came with, the calls whose EXECUTE message it was sent and
\* whether its error event has fired
Socket(token, readyState, code, listens) ==
  [token |-> token, readyState |-> readyState, code |-> code,
   listens |-> listens, executes |-> {}, errored |-> FALSE]

\* extensionClient && extensionClient.readyState === 1
ClientOpen(m) ==
  /\ m.extensionClient # NoClient
  /\ m.sockets[m.extensionClient].readyState = "open"

\* reject(new Error(message)) of sendCommand: the catch of
\* executeWithSecurity runs when the promise was not settled before
Rejected(m, i, message) ==
  IF m.calls[i].settled > 0 THEN [m EXCEPT !.calls[i].settled = @ + 1]
  ELSE Returned(Audit([m EXCEPT !.calls[i].settled = @ + 1],
                      i, Tag(m.calls[i].command), "ERROR", message),
                i, Caught(message))

\* setTimeout, pendingRequests.set and extensionClient.send of sendCommand
Requested(m, i) ==
  [m EXCEPT !.timers = @ \cup {i},
            !.pendingRequests = @ \cup {i},
            !.sockets[m.extensionClient].executes = @ \cup {i},
            !.sent = Append(@, [call |-> i, command |-> m.calls[i].command,
                                logged |-> Len(m.log)]),
            !.calls[i].at = "sent"]

\* executeWithSecurity sending the command with no EXECUTE entry
ForwardUnaudited(m, i) ==
  IF ~ClientOpen(m) THEN Rejected(m, i, NotConnected)
  ELSE Requested(m, i)

\* executeWithSecurity behind the confirmation: the EXECUTE entry, then
\* sendCommand, which rejects at once without an open extension client
Forward(m, i) ==
  LET command == m.calls[i].command
      logged == Audit(m, i, Tag(command), "EXECUTE", command)
  IN  IF ~ClientOpen(logged) THEN Rejected(logged, i, NotConnected)
      ELSE Requested(logged, i)

\* executeWithSecurity when confirmAction has resolved to approved
Confirmed(m, i, approved) ==
  LET command == m.calls[i].command
      resolved == [m EXCEPT !.calls[i].approved = <<approved>>]
  IN  IF ~approved
        THEN Returned(Audit(resolved, i, "[WRITE] ", "DENIED by user", command),
                      i, Text(ActionDenied, <<>>))
        ELSE Forward(resolved, i)

\* the commands of the tool calls: the tools' own, and what
\* agentshell_execute is given
ToolCommands ==
  { <<"l","s">>,
    <<"c","l","i","c","k"," ","o","k","_","b","t","n">>,
    <<" "," ","F","O","C","U","S"," ","o","k","_","b","t","n">>,
    <<"\"","t","y","p","e","\""," ","h","i">>,
    <<"w","h","o","a","m","i">>,
    <<"'","w","h","o","a","m","i","'">> }

\* what /dev/tty does when confirmAction opens it
TtyOutcomes == {"opens", "fails"}

Blocked == \E i \in DOMAIN mcp.calls : mcp.calls[i].at = "confirm"

\* a tool calls executeWithSecurity(command): it runs up to readSync of
\* confirmAction, or to the await of sendCommand, or returns
executeWithSecurity(command, tty) ==
  LET i == Len(mcp.calls) + 1
      check == isCommandAllowed(mcp, command)
      called == [mcp EXCEPT !.calls = Append(@, Call(command))]
  IN  /\ Len(mcp.calls) < MaxCalls
      /\ ~Blocked
      /\ mcp' =
           IF ~check.allowed
             THEN Returned(Audit(called, i, "", "DENIED", <<command, check.reason>>),
                           i, Caught(check.reason))
           ELSE IF getCommandTier(command) = "write"
             THEN IF mcp.NO_CONFIRM
                    THEN Confirmed(called, i, TRUE)
                  ELSE IF tty = "fails"
                    THEN Confirmed(called, i, FALSE)
                  ELSE [called EXCEPT !.calls[i].at = "confirm"]
           ELSE Forward(called, i)
      /\ UNCHANGED <<state, nodeMap, cdp, treeTab, axTree, pending, last, page>>

\* sixty seconds pass while readSync waits for the user: the timer of
\* confirmAction is set behind readSync, so nothing runs
promptElapses(i) ==
  /\ i \in DOMAIN mcp.calls
  /\ mcp.calls[i].at = "confirm"
  /\ ~mcp.calls[i].waited
  /\ mcp' = [mcp EXCEPT !.calls[i].waited = TRUE]
  /\ UNCHANGED <<state, nodeMap, cdp, treeTab, axTree, pending, last, page>>

\* the user types a line: readSync returns and confirmAction resolves
ttyAnswers(i, typed) ==
  /\ i \in DOMAIN mcp.calls
  /\ mcp.calls[i].at = "confirm"
  /\ mcp' = Confirmed(mcp, i, Approves(typed))
  /\ UNCHANGED <<state, nodeMap, cdp, treeTab, axTree, pending, last, page>>

\* what the extension answers to a request
ExtensionResults ==
  { <<"s","i","d","=","a","b","c","d","e","f","g","h","i","j">>,
    [i \in 1..(SummaryMax + 1) |-> "x"] }

\* pending.resolve(result) of the message handler: executeWithSecurity goes
\* on behind its await of sendCommand when the promise was not settled
\* before
Resolved(m, k, i, result) ==
  LET shown == redactSensitiveOutput(m, m.calls[i].command, result)
  IN  IF m.calls[i].settled > 0 THEN [m EXCEPT !.calls[i].settled = @ + 1]
      ELSE Returned(Audit([m EXCEPT !.calls[i].settled = @ + 1, !.calls[i].by = k],
                          i, Tag(m.calls[i].command), "RESULT", Summary(shown)),
                    i, Text("{0}", <<shown>>))

\* the message handler below without clearTimeout: the timer of the request
\* it resolves stays armed
extensionResultKeepingTimer(k, id, result) ==
  /\ k \in DOMAIN mcp.sockets
  /\ mcp.sockets[k].readyState # "closed"
  /\ ~Blocked
  /\ mcp' =
       IF ~mcp.sockets[k].listens THEN mcp
       ELSE IF id \in mcp.pendingRequests
         THEN Resolved([mcp EXCEPT !.pendingRequests = @ \ {id}], k, id, result)
       ELSE IF id \in DOMAIN mcp.calls
         THEN [mcp EXCEPT !.calls[id].late = TRUE]
       ELSE mcp
  /\ UNCHANGED <<state, nodeMap, cdp, treeTab, axTree, pending, last, page>>

\* a RESULT message with an id arrives on a connection: the handler of
\* message, when the connection has one, settles the request that
\* pendingRequests holds under the id, and does nothing when it holds none
extensionResult(k, id, result) ==
  /\ k \in DOMAIN mcp.sockets
  /\ mcp.sockets[k].readyState # "closed"
  /\ ~Blocked
  /\ mcp' =
       IF ~mcp.sockets[k].listens THEN mcp
       ELSE IF id \in mcp.pendingRequests
         THEN Resolved([mcp EXCEPT !.timers = @ \ {id},
                                   !.pendingRequests = @ \ {id}],
                       k, id, result)
       ELSE IF id \in DOMAIN mcp.calls
         THEN [mcp EXCEPT !.calls[id].late = TRUE]
       ELSE mcp
  /\ UNCHANGED <<state, nodeMap, cdp, treeTab, axTree, pending, last, page>>

\* the timer of the request fires after thirty seconds
requestTimesOut(i) ==
  /\ i \in mcp.timers
  /\ ~Blocked
  /\ mcp' = Rejected([mcp EXCEPT !.timers = @ \ {i},
                                 !.pendingRequests = @ \ {i}],
                     i, TimedOut)
  /\ UNCHANGED <<state, nodeMap, cdp, treeTab, axTree, pending, last, page>>

\* const AUTH_TOKEN = randomBytes(24).toString("hex")
AUTH_TOKEN == "<token>"

\* the token of the URL of a connection: the right one, another, none
Tokens == {AUTH_TOKEN, "<guess>", Undef}

\* the connection handler accepting every connection as the extension
extensionConnectsUnchecked(token) ==
  /\ ~Blocked
  /\ LET old == mcp.extensionClient
         replaced == IF old = NoClient THEN mcp
                     ELSE [mcp EXCEPT !.sockets[old].readyState =
                                        IF @ = "open" THEN "closing" ELSE @,
                                      !.sockets[old].code =
                                        IF @ = 0 THEN 1005 ELSE @]
     IN  mcp' = [Audit(replaced, 0, "", "CONNECTED", "extension authenticated")
                   EXCEPT !.sockets = Append(@, Socket(token, "open", 0, TRUE)),
                          !.extensionClient = Len(mcp.sockets) + 1]
  /\ UNCHANGED <<state, nodeMap, cdp, treeTab, axTree, pending, last, page>>

\* wss.on("connection"): a connection comes with a token.  With another
\* token than AUTH_TOKEN it is closed with the code 4001 and gets no
\* handler; otherwise the current client is closed and the connection
\* becomes the extension client
extensionConnects(token) ==
  /\ ~Blocked
  /\ LET old == mcp.extensionClient
         replaced == IF old = NoClient THEN mcp
                     ELSE [mcp EXCEPT !.sockets[old].readyState =
                                        IF @ = "open" THEN "closing" ELSE @,
                                      !.sockets[old].code =
                                        IF @ = 0 THEN 1005 ELSE @]
     IN  mcp' =
           IF token # AUTH_TOKEN
             THEN [Audit(mcp, 0, "", "REJECTED", "invalid auth token")
                     EXCEPT !.sockets = Append(@, Socket(token, "closing", 4001, FALSE))]
             ELSE [Audit(replaced, 0, "", "CONNECTED", "extension authenticated")
                     EXCEPT !.sockets = Append(@, Socket(token, "open", 0, TRUE)),
                            !.extensionClient = Len(mcp.sockets) + 1]
  /\ UNCHANGED <<state, nodeMap, cdp, treeTab, axTree, pending, last, page>>

\* the peer starts to close a connection: its readyState is CLOSING until
\* the close event
extensionLeaves(k) ==
  /\ k \in DOMAIN mcp.sockets
  /\ mcp.sockets[k].readyState = "open"
  /\ ~Blocked
  /\ mcp' = [mcp EXCEPT !.sockets[k].readyState = "closing"]
  /\ UNCHANGED <<state, nodeMap, cdp, treeTab, axTree, pending, last, page>>

\* the close handler clearing the extension client whatever connection has
\* closed
extensionClosesAny(k) ==
  /\ k \in DOMAIN mcp.sockets
  /\ mcp.sockets[k].readyState # "closed"
  /\ ~Blocked
  /\ LET closed == [mcp EXCEPT !.sockets[k].readyState = "closed"]
     IN  mcp' = IF mcp.sockets[k].listens
                  THEN [Audit(closed, 0, "", "DISCONNECTED", "extension")
                          EXCEPT !.extensionClient = NoClient]
                  ELSE closed
  /\ UNCHANGED <<state, nodeMap, cdp, treeTab, axTree, pending, last, page>>

\* ws.on("close"): the close event of a connection; the extension client
\* is cleared when it is this connection
extensionCloses(k) ==
  /\ k \in DOMAIN mcp.sockets
  /\ mcp.sockets[k].readyState # "closed"
  /\ ~Blocked
  /\ LET closed == [mcp EXCEPT !.sockets[k].readyState = "closed"]
     IN  mcp' = IF mcp.sockets[k].listens /\ mcp.extensionClient = k
                  THEN [Audit(closed, 0, "", "DISCONNECTED", "extension")
                          EXCEPT !.extensionClient = NoClient]
                  ELSE closed
  /\ UNCHANGED <<state, nodeMap, cdp, treeTab, axTree, pending, last, page>>

\* ws.on("error"): the error event of a connection, whose socket is then
\* closed; the extension client is cleared when it is this connection
extensionErrors(k) ==
  /\ k \in DOMAIN mcp.sockets
  /\ mcp.sockets[k].readyState # "closed"
  /\ ~mcp.sockets[k].errored
  /\ ~Blocked
  /\ LET failed == [mcp EXCEPT !.sockets[k].readyState = "closing",
                               !.sockets[k].errored = TRUE]
     IN  mcp' = IF mcp.sockets[k].listens /\ mcp.extensionClient = k
                  THEN [failed EXCEPT !.extensionClient = NoClient]
                  ELSE failed
  /\ UNCHANGED <<state, nodeMap, cdp, treeTab, axTree, pending, last, page>>

\* appendFileSync starts to throw: the log file can no longer be written
logFileFails ==
  /\ mcp.logWritable
  /\ mcp' = [mcp EXCEPT !.logWritable = FALSE]
  /\ UNCHANGED <<state, nodeMap, cdp, treeTab, axTree, pending, last, page>>

InitMcp ==
  /\ \E argv \in SUBSET Flags : mcp = McpStarted(argv)
  /\ state = [cwd |-> <<>>,
              cwdNames |-> <<Slash>>,
              attachedTabId |-> NoTab,
              env |-> << EnvEntry(SHELLKEY, SHELLVAL),
                         EnvEntry(TERMKEY, TERMVAL),
                         EnvEntry(PS1KEY, PS1VAL) >>]
  /\ nodeMap = <<>>
  /\ cdp = [attachedTabId |-> NoTab, debuggees |-> {}, enabled |-> {}]
  /\ treeTab = NoTab
  /\ axTree = <<>>
  /\ pending = <<>>
  /\ last = [cmd |-> "", args |-> <<>>, out |-> [text |-> "", with |-> <<>>]]
  /\ page = NoPage

\* the tool calls, the prompt, the timers and one connection of the
\* extension, which answers the requests that are pending
NextMcp ==
  \/ \E command \in ToolCommands, tty \in TtyOutcomes :
       executeWithSecurity(command, tty)
  \/ \E i \in 1..MaxCalls : promptElapses(i)
  \/ \E i \in 1..MaxCalls, typed \in TtyAnswers : ttyAnswers(i, typed)
  \/ \E id \in mcp.pendingRequests, result \in ExtensionResults :
       extensionResult(mcp.extensionClient, id, result)
  \/ \E i \in 1..MaxCalls : requestTimesOut(i)
  \/ Len(mcp.sockets) < MaxConnections /\ extensionConnects(AUTH_TOKEN)
  \/ extensionCloses(mcp.extensionClient)
  \/ logFileFails

SpecMcp == InitMcp /\ [][NextMcp]_vars

\* --------------------------------------------- the page of the attached tab

\* the shop page after a same-document mutation that takes the form out of
\* the main area
PageShopSoldOut ==
  LET kept == SelectSeq(PageShop, LAMBDA n : n.nodeId \notin {<<"5">>, <<"6">>})
  IN  [i \in DOMAIN kept |->
         [kept[i] EXCEPT !.childIds = SelectSeq(@, LAMBDA c : c # <<"5">>)]]

\* the shop page after a same-document mutation that adds a button to the
\* main area
PageShopRestocked ==
  [i \in DOMAIN PageShop |->
     IF PageShop[i].nodeId = <<"2">>
       THEN [PageShop[i] EXCEPT !.childIds = Append(@, <<"g">>)]
       ELSE PageShop[i]]
    \o << AXNode(<<"g">>, "button", <<"B","u","y">>, FALSE, <<>>, 120, NoString) >>

\* the documents a tab can show, each with the trees that same-document
\* mutations make of it
Documents ==
  { {PageShop, PageShopSoldOut, PageShopRestocked}, {PageDocs}, {PageBlank} }

\* the tab whose page is followed
PageTab == 1

\* the tab navigates to another document
pageNavigates(axNodes) ==
  /\ \E from \in Documents, to \in Documents :
       page.tree \in from /\ axNodes \in to /\ from # to
  /\ ~(ensureAttached /\ page.tree # axTree)
  /\ page' = [tree |-> axNodes, change |-> "navigation"]
  /\ UNCHANGED <<state, nodeMap, cdp, treeTab, axTree, pending, last, mcp>>

\* the document of the tab is mutated
pageMutates(axNodes) ==
  /\ \E doc \in Documents : page.tree \in doc /\ axNodes \in doc
  /\ axNodes # page.tree
  /\ ~(ensureAttached /\ page.tree # axTree)
  /\ page' = [tree |-> axNodes, change |-> "mutation"]
  /\ UNCHANGED <<state, nodeMap, cdp, treeTab, axTree, pending, last, mcp>>

\* the targets of cd on the pages followed
PageCdArgs ==
  {<<Slash>>, <<DotDot>>, << <<"m","a","i","n">> >>, << <<"f","o","r","m">> >>}

InitPage ==
  /\ \E doc \in Documents : \E axNodes \in doc :
       page = [tree |-> axNodes, change |-> "none"]
  /\ state = [cwd |-> <<>>,
              cwdNames |-> <<Slash>>,
              attachedTabId |-> NoTab,
              env |-> << EnvEntry(SHELLKEY, SHELLVAL),
                         EnvEntry(TERMKEY, TERMVAL),
                         EnvEntry(PS1KEY, PS1VAL) >>]
  /\ nodeMap = <<>>
  /\ cdp = [attachedTabId |-> NoTab, debuggees |-> {}, enabled |-> {}]
  /\ treeTab = NoTab
  /\ axTree = <<>>
  /\ pending = <<>>
  /\ last = [cmd |-> "", args |-> <<>>, out |-> [text |-> "", with |-> <<>>]]
  /\ mcp = McpStart(FALSE, FALSE, FALSE)

\* the commands of the kernel on a tab whose page changes under it:
\* Accessibility.getFullAXTree answers the tree the tab shows
NextPage ==
  \/ \E outcome \in AttachOutcomes :
       handleAttach(PageTab, outcome, IF outcome = "ok" THEN page.tree ELSE <<>>)
  \/ handleDetach
  \/ \E outcome \in RefreshOutcomes :
       handleRefresh(outcome, IF outcome = "ok" THEN page.tree ELSE <<>>)
  \/ \E args \in PageCdArgs : handleCd(args)
  \/ handlePwd
  \/ handleLs(<<>>)
  \/ \E args \in EntryArgs :
       \E outcome \in (IF ensureAttached /\ args # <<>> /\ cdp.attachedTabId # NoTab
                         THEN ClickOutcomes ELSE {"fails"}) :
         handleClick(args, outcome)
  \/ \E axNodes \in UNION Documents : pageNavigates(axNodes)
  \/ \E axNodes \in UNION Documents : pageMutates(axNodes)

SpecPage == InitPage /\ [][NextPage]_vars

\* ------------------------------------- the MCP server and its connections

\* Most connections made to the WebSocket server when they come with any
\* token and close in any order.
MaxSockets == 2

\* the commands of the tool calls: a read and a write
BridgeCommands ==
  { <<"l","s">>, <<"c","l","i","c","k"," ","o","k","_","b","t","n">> }

\* what a connection answers to a request
BridgeResults == { <<"o","k">> }

\* the server started with --allow-all
InitBridge ==
  /\ mcp = McpStarted({"--allow-all"})
  /\ state = [cwd |-> <<>>,
              cwdNames |-> <<Slash>>,
              attachedTabId |-> NoTab,
              env |-> << EnvEntry(SHELLKEY, SHELLVAL),
                         EnvEntry(TERMKEY, TERMVAL),
                         EnvEntry(PS1KEY, PS1VAL) >>]
  /\ nodeMap = <<>>
  /\ cdp = [attachedTabId |-> NoTab, debuggees |-> {}, enabled |-> {}]
  /\ treeTab = NoTab
  /\ axTree = <<>>
  /\ pending = <<>>
  /\ last = [cmd |-> "", args |-> <<>>, out |-> [text |-> "", with |-> <<>>]]
  /\ page = NoPage

\* the tool calls, the prompt, the timers, and connections that come with
\* any token, send RESULT messages with any id, and close or fail in any
\* order
NextBridge ==
  \/ \E command \in BridgeCommands, tty \in TtyOutcomes :
       executeWithSecurity(command, tty)
  \/ \E i \in 1..MaxCalls, typed \in TtyAnswers : ttyAnswers(i, typed)
  \/ \E k \in 1..MaxSockets, id \in 1..(MaxCalls + 1), result \in BridgeResults :
       extensionResult(k, id, result)
  \/ \E i \in 1..MaxCalls : requestTimesOut(i)
  \/ Len(mcp.sockets) < MaxSockets /\ \E token \in Tokens : extensionConnects(token)
  \/ \E k \in 1..MaxSockets : extensionLeaves(k)
  \/ \E k \in 1..MaxSockets : extensionCloses(k)
  \/ \E k \in 1..MaxSockets : extensionErrors(k)

SpecBridge == InitBridge /\ [][NextBridge]_vars

\* the timers of Node fire when the event loop runs: the timer of a pending
\* request is not put off for ever
SpecBridgeLive ==
  SpecBridge /\ \A i \in 1..MaxCalls : WF_vars(requestTimesOut(i))

\* ----------------------------------------------------------------- claims

\* the kernel is ATTACHED
Attached == state.attachedTabId # NoTab

\* the segment names that are not ".."
NameSegs == SegNames \ {DotDot}

\* the sequences of n such names
RECURSIVE NameSeqs(_)
NameSeqs(n) ==
  IF n = 0 THEN {<<>>}
  ELSE {Append(segs, seg) : segs \in NameSeqs(n - 1), seg \in NameSegs}

\* the paths s1/.../sn, 1 <= n <= MaxSegs, as their segments
NamePaths == UNION {NameSeqs(n) : n \in 1..MaxSegs}

\* the entries that the leading segments of segs resolve to, one below the
\* other from the node id on, as long as they are directories
RECURSIVE DirChain(_, _, _)
DirChain(id, segs, map) ==
  IF segs = <<>> THEN <<>>
  ELSE LET entry == findChildByName(id, Head(segs), map)
       IN  IF entry = NoVFS \/ ~entry.isDirectory THEN <<>>
           ELSE <<entry>> \o DirChain(entry.axNodeId, Tail(segs), map)

\* the entry that segment k+1 of segs resolves to, below the chain of the
\* first k
NextEntry(id, chain, segs, map) ==
  findChildByName(IF chain = <<>> THEN id ELSE Last(chain).axNodeId,
                  segs[Len(chain) + 1], map)

\* this step is the command cd with the one argument target
CdStep(target) == last'.cmd = "cd" /\ last'.args = <<target>>

\* the names of one listing are pairwise distinct
DistinctNames(entries) ==
  \A i, j \in DOMAIN entries : i # j => entries[i].name # entries[j].name

\* C1: in every reachable kernel state the CWD id sequence and the CWDNames
\* sequence have the same length.
C1_SameLength == Len(state.cwd) = Len(state.cwdNames)

\* C2: the kernel is ATTACHED only to the target whose tree ingestion
\* succeeded, the tree that is in the NodeMap; a failed fetch leaves the
\* attached target as it was.
C2_AttachedToIngestedTarget == Attached => treeTab = state.attachedTabId

\* C3: after every refresh that completes without error CWD is [root of the
\* new NodeMap], CWDNames is ["/"] and no id that the new NodeMap does not
\* hold remains in CWD.
C3_RefreshResetsCwd ==
  (last.cmd = "refresh" /\ last.out.text = "Refreshed. {0} AX nodes loaded.") =>
    /\ state.cwdNames = <<Slash>>
    /\ findRootNode(nodeMap) # NoNode => state.cwd = <<findRootNode(nodeMap).nodeId>>
    /\ \A i \in DOMAIN state.cwd : MapGet(nodeMap, state.cwd[i]) # NoNode

\* the commands other than attach that C4 lists
GuardedCommands ==
  {"ls", "cd", "pwd", "cat", "grep", "tree", "click", "focus", "type",
   "refresh", "detach", "whoami", "env", "export"}

\* the texts by which the commands report that the kernel is not attached
NotAttachedTexts ==
  {"Error: " \o NotAttached, "Not attached. Run 'attach' first.",
   "Not attached to any tab."}

\* C4: in the DETACHED state every command other than attach fails with a
\* not-attached error and leaves CWD, CWDNames, the NodeMap and env
\* unchanged.
C4_DetachedCommandsFail ==
  [][(state.attachedTabId = NoTab /\ last'.cmd \in GuardedCommands) =>
       /\ last'.out.text \in NotAttachedTexts
       /\ state'.cwd = state.cwd
       /\ state'.cwdNames = state.cwdNames
       /\ state'.env = state.env
       /\ nodeMap' = nodeMap
    ]_vars

\* C5: a cd whose first k segments resolve to directories and whose segment
\* k+1 does not resolve reports "No such directory" for segment k+1 and
\* leaves CWD and CWDNames extended by exactly the k resolved segments: not
\* rolled back, and nothing pushed for segment k+1.  (For k = 0 the cd is
\* one that the kernel takes: a tab is attached and the NodeMap is not
\* empty.)
C5_PartialCdKept ==
  [][\A segs \in NamePaths :
       (CdStep(Join(segs, Slash)) /\ state.cwd # <<>>) =>
         LET chain == DirChain(Last(state.cwd), segs, nodeMap)
             k     == Len(chain)
         IN  (/\ k < Len(segs)
              /\ k >= 1 \/ ensureAttached
              /\ NextEntry(Last(state.cwd), chain, segs, nodeMap) = NoVFS) =>
               /\ last'.out = Text("cd: {0}: No such directory", <<segs[k + 1]>>)
               /\ state'.cwd = state.cwd \o [i \in 1..k |-> chain[i].axNodeId]
               /\ state'.cwdNames = state.cwdNames \o SubSeq(segs, 1, k)
    ]_vars

\* C5 witness: cd form/main has failed at its second segment, main, after
\* its first segment was entered.
C5_Witness ==
  /\ last.cmd = "cd"
  /\ last.args = << <<"f","o","r","m">> \o Slash \o <<"m","a","i","n">> >>
  /\ last.out = Text("cd: {0}: No such directory", << <<"m","a","i","n">> >>)
  /\ Len(state.cwd) >= 2
  /\ Last(state.cwdNames) = <<"f","o","r","m">>

\* "/" for ["/"], otherwise the names after the first, each after a "/"
RECURSIVE Rendered(_)
Rendered(names) ==
  IF Len(names) <= 1 THEN Slash
  ELSE IF Len(names) = 2 THEN Slash \o names[2]
  ELSE Rendered(Front(names)) \o Slash \o Last(names)

\* C6, as claimed: after a cd with path s1/.../sn that succeeds, pwd returns
\* "/" followed by s1..sn joined by "/", for every starting CWD and for the
\* spellings with and without a leading "/".
C6_PwdIsThePath ==
  \A segs \in NamePaths :
    (/\ last.cmd = "cd"
     /\ last.args \in {<<Join(segs, Slash)>>, <<Slash \o Join(segs, Slash)>>}
     /\ last.out.text = "") =>
      Rendered(state.cwdNames) = Slash \o Join(segs, Slash)

\* CWDNames walked over the segments of a path: a name is appended, ".."
\* removes the last name unless only "/" is left
RECURSIVE Walk(_, _)
Walk(names, segs) ==
  IF segs = <<>> THEN names
  ELSE Walk(IF Head(segs) = DotDot
              THEN (IF Len(names) > 1 THEN Front(names) ELSE names)
              ELSE Append(names, Head(segs)),
            Tail(segs))

\* the paths of n segments, ".." among them, as their segments
RECURSIVE SegSeqs(_)
SegSeqs(n) ==
  IF n = 0 THEN {<<>>}
  ELSE {Append(segs, seg) : segs \in SegSeqs(n - 1), seg \in SegNames}

\* C6, amended: after a cd with path s1/.../sn that succeeds, CWDNames is
\* the CWDNames before the command walked over s1..sn in turn - a name is
\* appended, ".." removes the last name unless only "/" is left - with or
\* without a leading "/" of the path, which is ignored; and pwd returns "/"
\* when CWDNames is ["/"] and otherwise CWDNames without its first element
\* joined by "/" after a leading "/".  So pwd is "/" followed by s1..sn only
\* after a cd from the root without "..".
C6_PwdIsCwdThenPath ==
  [][/\ \A n \in 1..MaxSegs : \A segs \in SegSeqs(n) :
          ((CdStep(Join(segs, Slash)) \/ (n = 1 /\ CdStep(Slash \o Join(segs, Slash))))
             /\ last'.out.text = "") =>
            state'.cwdNames = Walk(state.cwdNames, segs)
     /\ last'.cmd = "pwd" =>
          /\ last'.out = Text("{0}", <<Rendered(state.cwdNames)>>)
          /\ state'.cwdNames = state.cwdNames
    ]_vars

\* C6 witness: cd /form has succeeded below /main.
C6_Witness ==
  /\ last.cmd = "cd"
  /\ last.args = << Slash \o <<"f","o","r","m">> >>
  /\ last.out.text = ""
  /\ state.cwdNames = << Slash, <<"m","a","i","n">>, <<"f","o","r","m">> >>

\* C7: cd / issued in any reachable kernel state leaves CWDNames equal to
\* ["/"], and when attached leaves CWD equal to [root id of the NodeMap].
C7_CdSlashResets ==
  (last.cmd = "cd" /\ last.args = <<Slash>>) =>
    /\ state.cwdNames = <<Slash>>
    /\ (Attached /\ findRootNode(nodeMap) # NoNode) =>
         state.cwd = <<findRootNode(nodeMap).nodeId>>

\* C8: cd .. at the root leaves CWD and CWDNames unchanged; at depth > 1 it
\* removes exactly the last element of both; no cd, of one or of several
\* segments, pops the root element.
C8_DotDotPopsOne ==
  [][/\ CdStep(DotDot) =>
          IF Len(state.cwd) > 1
            THEN /\ state'.cwd = Front(state.cwd)
                 /\ state'.cwdNames = Front(state.cwdNames)
            ELSE /\ state'.cwd = state.cwd
                 /\ state'.cwdNames = state.cwdNames
     /\ (last'.cmd = "cd" /\ state.cwd # <<>>) =>
          /\ state'.cwd # <<>>
          /\ state'.cwd[1] = state.cwd[1] \/ state'.cwd = <<findRootNode(nodeMap).nodeId>>
    ]_vars

\* C9: cd to a segment that resolves to a file fails with "Not a directory"
\* for that segment and pushes nothing for it; every id in CWD after the
\* root is one of a directory of the NodeMap it was pushed from.
C9_FilesNotEntered ==
  [][/\ \A segs \in NamePaths :
          (CdStep(Join(segs, Slash)) /\ state.cwd # <<>>) =>
            LET chain == DirChain(Last(state.cwd), segs, nodeMap)
                k     == Len(chain)
            IN  (k < Len(segs) /\ NextEntry(Last(state.cwd), chain, segs, nodeMap) # NoVFS) =>
                  /\ last'.out = Text("cd: {0}: Not a directory", <<segs[k + 1]>>)
                  /\ state'.cwd = state.cwd \o [i \in 1..k |-> chain[i].axNodeId]
                  /\ state'.cwdNames = state.cwdNames \o SubSeq(segs, 1, k)
     /\ last'.cmd = "cd" =>
          \A i \in 2..Len(state'.cwd) :
            (i > Len(state.cwd) \/ state'.cwd[i] # state.cwd[i]) =>
              isContainerNode(MapGet(nodeMap, state'.cwd[i]))
    ]_vars

\* C9 witness: cd main/form has failed at form, a file of the directory main
\* that it entered.
C9_Witness ==
  /\ last.cmd = "cd"
  /\ last.args = << <<"m","a","i","n">> \o Slash \o <<"f","o","r","m">> >>
  /\ last.out = Text("cd: {0}: Not a directory", << <<"f","o","r","m">> >>)
  /\ state.cwdNames = << Slash, <<"m","a","i","n">> >>
  /\ ~findChildByName(Last(state.cwd), <<"f","o","r","m">>, nodeMap).isDirectory

\* C10: within one listing of children the display names are pairwise
\* distinct, for every parent of the NodeMap.
C10_ListingNamesDistinct ==
  \A i \in DOMAIN nodeMap :
    DistinctNames(getChildVFSNodes(nodeMap[i].nodeId, nodeMap))

\* the ids of the nodes the NodeMap holds
NodeIds == {nodeMap[i].nodeId : i \in DOMAIN nodeMap}

\* listChildren(parent) on the NodeMap
Listing(id) == getChildVFSNodes(id, nodeMap)

\* the role string of a node, empty when it has none
RoleOf(node) == OrElse(node.role, "")

\* the name generated for the node of an entry, before disambiguation
BaseName(entry) == generateNodeName(MapGet(nodeMap, entry.axNodeId))

\* how many entries up to the p-th have the base name of the p-th
Rank(entries, p) ==
  Cardinality({q \in 1..p : BaseName(entries[q]) = BaseName(entries[p])})

\* the child is an unnamed generic node with exactly one child id
IsWrapper(node) ==
  RoleOf(node) = "generic" /\ node.name = <<>> /\ Len(node.childIds) = 1

\* the place among the child ids of the parent that an entry comes from:
\* the child itself, or the wrapper it was promoted from
Slot(parent, entry) ==
  CHOOSE i \in DOMAIN parent.childIds :
    \/ parent.childIds[i] = entry.axNodeId
    \/ LET child == MapGet(nodeMap, parent.childIds[i])
       IN  child # NoNode /\ IsWrapper(child) /\ child.childIds = <<entry.axNodeId>>

\* C11: of k entries of one listing with the same generated base name the
\* first in traversal order keeps the bare name and the i-th is named base_i;
\* the entries stand in the order of the child ids, an entry promoted by
\* flattening at the place of its wrapper.
C11_DuplicatesNumbered ==
  \A id \in NodeIds :
    LET entries == Listing(id)
        parent  == MapGet(nodeMap, id)
    IN  /\ \A p \in DOMAIN entries :
             entries[p].name =
               IF Rank(entries, p) = 1 THEN BaseName(entries[p])
               ELSE BaseName(entries[p]) \o <<"_">> \o NumChars(Rank(entries, p))
        /\ \A p, q \in DOMAIN entries :
             p < q => Slot(parent, entries[p]) < Slot(parent, entries[q])

\* C11 witness: ls has listed three buttons of one name, the second of them
\* promoted from a wrapper.
C11_Witness ==
  /\ last.cmd = "ls"
  /\ Len(state.cwd) = 1
  /\ LET entries == Listing(Last(state.cwd))
     IN  /\ Len(entries) = 3
         /\ entries[1].name = <<"o","k","_","b","t","n">>
         /\ entries[2].name = <<"o","k","_","b","t","n","_","2">>
         /\ entries[3].name = <<"o","k","_","b","t","n","_","3">>
         /\ entries[2].axNodeId = GrandId(2)

\* C12: no listing has an entry for a node whose ignored flag is set, as a
\* child or as the child of a wrapper; the NodeMap holds no such node, and a
\* child id that the NodeMap does not resolve gets no entry and no error.
C12_IgnoredNeverListed ==
  /\ \A i \in DOMAIN nodeMap : ~nodeMap[i].ignored
  /\ \A id \in NodeIds :
       LET entries == Listing(id)
           parent  == MapGet(nodeMap, id)
       IN  /\ \A p \in DOMAIN entries :
                /\ entries[p].axNodeId \in NodeIds
                /\ \A i \in DOMAIN axTree :
                     axTree[i].nodeId = entries[p].axNodeId => ~axTree[i].ignored
           /\ \A i \in DOMAIN parent.childIds :
                MapGet(nodeMap, parent.childIds[i]) = NoNode =>
                  \A p \in DOMAIN entries : entries[p].axNodeId # parent.childIds[i]
  /\ (last.cmd = "ls" /\ ensureAttached /\ state.cwd # <<>>) =>
       last.out.text \in {"{lines}", "(empty directory)"}

\* C12 witness: ls has listed a root with an ignored child, a wrapper of an
\* ignored child and a child id that resolves to nothing.
C12_Witness ==
  /\ last.cmd = "ls"
  /\ axTree = Tree([i \in 1..MaxKids |->
                      IF i = 1 THEN "ignored"
                      ELSE IF i = 2 THEN "wrapsIgnored" ELSE "absent"])
  /\ state.cwd = <<RootId>>
  /\ Len(Listing(RootId)) = 1

\* the children of the parent that are wrappers
WrapperPlaces(parent) ==
  {i \in DOMAIN parent.childIds :
     LET child == MapGet(nodeMap, parent.childIds[i])
     IN  child # NoNode /\ IsWrapper(child)}

\* the ids of the entries of a listing, in its order
EntryIds(entries) == [p \in DOMAIN entries |-> entries[p].axNodeId]

Unlisted(node) == RoleOf(node) \in {"none", "Ignored"}

\* the ids that the child ids from the i-th on are to be listed as: a
\* wrapper whose child the NodeMap resolves gives way to that child, a child
\* that does not resolve or is never listed gives nothing
RECURSIVE Places(_, _)
Places(childIds, map) ==
  IF childIds = <<>> THEN <<>>
  ELSE LET child == MapGet(map, Head(childIds))
           shown == IF child # NoNode /\ IsWrapper(child)
                         /\ MapGet(map, child.childIds[1]) # NoNode
                      THEN MapGet(map, child.childIds[1])
                      ELSE child
       IN  (IF shown = NoNode \/ Unlisted(child) \/ Unlisted(shown)
              THEN <<>> ELSE <<shown.nodeId>>)
           \o Places(Tail(childIds), map)

C14_NamesNotEmpty ==
  /\ \A i \in DOMAIN nodeMap : generateNodeName(nodeMap[i]) # <<>>
  /\ \A id \in NodeIds :
       \A p \in DOMAIN Listing(id) : Listing(id)[p].name # <<>>

\* C14 witness: ls has listed a node whose name and description are there
\* and sanitize to nothing and whose role is the empty string.
C14_Witness ==
  /\ last.cmd = "ls"
  /\ \E i \in DOMAIN nodeMap :
       /\ nodeMap[i].role = ""
       /\ nodeMap[i].name # <<>> /\ sanitize(nodeMap[i].name) = <<>>
       /\ nodeMap[i].description # <<>> /\ sanitize(nodeMap[i].description) = <<>>
       /\ \E p \in DOMAIN Listing(RootId) : Listing(RootId)[p].axNodeId = nodeMap[i].nodeId

\* C15: a node whose sanitized name and description are both empty is named
\* by its bare role string and the suffix of the role, without a suffix for
\* a role the table does not hold; the id of the node is appended only when
\* the role string is empty.
C15_RoleFallbackIsBare ==
  \A i \in DOMAIN nodeMap :
    LET node == nodeMap[i]
    IN  (node.role # Undef /\ sanitize(node.name) = <<>>
           /\ sanitize(node.description) = <<>>) =>
          IF node.role = ""
            THEN /\ Len(generateNodeName(node)) >= Len(node.nodeId)
                 /\ SubSeq(generateNodeName(node),
                           Len(generateNodeName(node)) - Len(node.nodeId) + 1,
                           Len(generateNodeName(node))) = node.nodeId
            ELSE generateNodeName(node)
                   = Spell(node.role) \o OrElse(roleSuffix(node.role), <<>>)

\* the rule of classify: Directory for a container role, or for a node with
\* a child id whose role is not interactive
DirectoryByRule(node) ==
  \/ RoleOf(node) \in CONTAINER_ROLES
  \/ Len(node.childIds) >= 1 /\ RoleOf(node) \notin INTERACTIVE_ROLES

\* C16: an entry is a Directory exactly when its node has a container role,
\* or has a child id and no interactive role; a node of an interactive role
\* is a File however many children it has, and a childless node with a role
\* of neither set is a File.
C16_DirectoryByRoleOrChildren ==
  \A id \in NodeIds :
    \A p \in DOMAIN Listing(id) :
      LET entry == Listing(id)[p]
          node  == MapGet(nodeMap, entry.axNodeId)
      IN  /\ entry.isDirectory = DirectoryByRule(node)
          /\ RoleOf(node) \in INTERACTIVE_ROLES => ~entry.isDirectory
          /\ (node.childIds = <<>> /\ RoleOf(node) \notin CONTAINER_ROLES) =>
               ~entry.isDirectory

\* C16 witness: ls has listed a link that has a child as a file, a childless
\* list as a directory and a childless text as a file.
C16_Witness ==
  /\ last.cmd = "ls"
  /\ state.cwd = <<RootId>>
  /\ LET entries == Listing(RootId)
     IN  /\ Len(entries) = 3
         /\ entries[1].role = "link" /\ ~entries[1].isDirectory
         /\ MapGet(nodeMap, entries[1].axNodeId).childIds # <<>>
         /\ entries[2].role = "list" /\ entries[2].isDirectory
         /\ MapGet(nodeMap, entries[2].axNodeId).childIds = <<>>
         /\ entries[3].role = "StaticText" /\ ~entries[3].isDirectory

\* the commands that only read
ReadCommands == {"ls", "grep", "tree", "cat"}

\* C17: ls, grep, tree and cat leave CWD, CWDNames, the NodeMap with every
\* node it stores and env unchanged, whether they succeed or fail.
C17_ReadsChangeNothing ==
  [][last'.cmd \in ReadCommands =>
       /\ state'.cwd = state.cwd
       /\ state'.cwdNames = state.cwdNames
       /\ state'.env = state.env
       /\ nodeMap' = nodeMap ]_vars

\* C17 witness: ls has listed a directory below the root in which a name was
\* disambiguated.
C17_Witness ==
  /\ last.cmd = "ls"
  /\ last.out.text = "{lines}"
  /\ Len(state.cwd) = 2
  /\ \E p \in DOMAIN Listing(Last(state.cwd)) :
       Listing(Last(state.cwd))[p].name # BaseName(Listing(Last(state.cwd))[p])

\* the calls of the listener that await the tree of the tab
Fetching(tab) ==
  {i \in DOMAIN pending : pending[i].at = "fetch" /\ pending[i].target = tab}

\* C18: command execution is serialized: no command starts while an earlier
\* one awaits the accessibility source or the actuator, so that no two tree
\* ingestions are in flight at a time for one target.
C18_CommandsSerialized ==
  /\ Len(pending) <= 1
  /\ \A tab \in Tabs : Cardinality(Fetching(tab)) <= 1

\* C19: at every await of attach, refresh and detach, when no other command
\* is in progress, what a command can see is whole: the attached target is
\* the target whose tree the NodeMap holds, CWD starts at the root of the
\* NodeMap, and the NodeMap is empty when the binding is cleared.
C19_IngestionAtomic ==
  Len(pending) = 1 =>
    /\ state.attachedTabId = treeTab
    /\ nodeMap # <<>> =>
         /\ state.cwd # <<>>
         /\ state.cwd[1] = findRootNode(nodeMap).nodeId
    /\ cdp.attachedTabId = NoTab => nodeMap = <<>>

\* C20: for every STDIN input executeCommand returns a text and the kernel
\* posts one STDOUT message in reply.
C20_EveryInputAnswered == last.out # NoReply

\* the command word that the switch of executeCommand gets for an input
\* line (Undef when the line is blank or has no part)
Dispatched(raw) ==
  IF Trim(raw) = <<>> \/ parseCommandLine(Trim(raw)) = <<>> THEN Undef
  ELSE toLowerCase(Head(parseCommandLine(Trim(raw))))

\* C21: a command that the kernel dispatches as click, focus or type is
\* sent to the extension only when write commands are enabled, and one that
\* it dispatches as whoami only when sensitive commands are enabled,
\* however the command word is spelled.
C21_TierOfDispatchedWord ==
  \A k \in DOMAIN mcp.sent :
    /\ Dispatched(mcp.sent[k].command) \in WRITE_COMMANDS => mcp.ALLOW_WRITE
    /\ Dispatched(mcp.sent[k].command) \in SENSITIVE_COMMANDS => mcp.ALLOW_SENSITIVE

\* the calls whose command was sent to the extension
SentCalls == {mcp.sent[k].call : k \in DOMAIN mcp.sent}

\* the calls that confirmAction is asked about
AskedCalls ==
  { i \in DOMAIN mcp.calls :
      /\ getCommandTier(mcp.calls[i].command) = "write"
      /\ isCommandAllowed(mcp, mcp.calls[i].command).allowed
      /\ ~mcp.NO_CONFIRM }

\* C22: with confirmation on, a write-tier command is sent only when
\* confirmAction resolved true for it within the sixty seconds of the
\* prompt; when the answer is not y or yes, the terminal cannot be opened
\* or sixty seconds pass at the prompt, nothing is sent and the call
\* returns "Action denied by user."
C22_SentOnlyWhenConfirmed ==
  \A i \in AskedCalls :
    /\ i \in SentCalls =>
         mcp.calls[i].approved = <<TRUE>> /\ ~mcp.calls[i].waited
    /\ (mcp.calls[i].approved = <<FALSE>> \/ mcp.calls[i].waited) =>
         /\ i \notin SentCalls
         /\ mcp.calls[i].at = "done"
         /\ mcp.calls[i].result = Text(ActionDenied, <<>>)

\* the lines of the audit log that reached the file
Filed == {k \in DOMAIN mcp.log : mcp.log[k].written}

\* the calls that the tier or the user rejected
RejectedCalls ==
  { i \in DOMAIN mcp.calls :
      /\ mcp.calls[i].at = "done"
      /\ \/ ~isCommandAllowed(mcp, mcp.calls[i].command).allowed
         \/ mcp.calls[i].approved = <<FALSE>> }

\* the entries of a call that are of one of the kinds, among the lines
EntriesOf(lines, i, kinds) ==
  {k \in lines : mcp.log[k].call = i /\ mcp.log[k].kind \in kinds}

\* the audit ordering, read from the given lines of the log
AuditOrder(lines) ==
  /\ \A s \in DOMAIN mcp.sent :
       /\ \E k \in EntriesOf(lines, mcp.sent[s].call, {"EXECUTE"}) :
            k <= mcp.sent[s].logged
       /\ Cardinality({k \in EntriesOf(lines, mcp.sent[s].call, {"RESULT", "ERROR"}) :
                         k > mcp.sent[s].logged})
            = (IF mcp.calls[mcp.sent[s].call].at = "done" THEN 1 ELSE 0)
  /\ \A i \in RejectedCalls :
       /\ EntriesOf(lines, i, {"DENIED", "DENIED by user"}) # {}
       /\ EntriesOf(lines, i, {"EXECUTE"}) = {}

InFlight(at) == {i \in DOMAIN pending : pending[i].at = at}

\* C24: no chrome.debugger.attach is in flight while a chrome.debugger.detach
\* is, the debugger is attached to one tab at most, and the tab the client
\* is bound to is that tab.
C24_OneTargetAtATime ==
  /\ InFlight("unbind") # {} => InFlight("bind") = {}
  /\ Cardinality(cdp.debuggees) <= 1
  /\ cdp.attachedTabId # NoTab => cdp.debuggees = {cdp.attachedTabId}

\* a call of handleDetach runs to its end and answers "Detached."
DetachCompletes ==
  \/ \E i \in DOMAIN pending : detachUnbound(i)
  \/ stdinDetach /\ state.attachedTabId # NoTab /\ pending' = pending
  \/ handleDetach /\ state.attachedTabId # NoTab

\* a call of handleAttach runs to its end and answers "Attached to tab ..."
AttachCompletes ==
  /\ last'.cmd = "attach"
  /\ last'.out.with # <<>>
  /\ \/ Len(pending') < Len(pending)
     \/ pending' = pending /\ nodeMap' = buildNodeMap(axTree')

\* C25: when detach completes the NodeMap is empty, CWD is empty, the kernel
\* is detached and the CDP client is unbound; and an attach that completes
\* on the cleared kernel leaves the NodeMap built from the tree it read and
\* in CWD only ids of that NodeMap.
C25_DetachClearsAll ==
  [][/\ DetachCompletes =>
          /\ nodeMap' = <<>>
          /\ state'.cwd = <<>>
          /\ state'.cwdNames = <<Slash>>
          /\ state'.attachedTabId = NoTab
          /\ cdp'.attachedTabId = NoTab
     /\ (AttachCompletes /\ nodeMap = <<>> /\ state.cwd = <<>>) =>
          /\ nodeMap' = buildNodeMap(axTree')
          /\ \A k \in DOMAIN state'.cwd :
               MapGet(nodeMap', state'.cwd[k]) # NoNode]_vars

\* the entry of listChildren(parent) that stands for the node id, under the
\* name it has there
ListedAs(parent, id, name) ==
  \E p \in DOMAIN Listing(parent) :
    Listing(parent)[p].axNodeId = id /\ Listing(parent)[p].name = name

\* C26: whenever the kernel is attached and the NodeMap is not empty, CWD
\* starts at the root that findRootNode returns, every id of CWD resolves in
\* the NodeMap, and every further element is an entry of the listing of the
\* element before it (a child, or the single child of an elided wrapper
\* child) under the name that CWDNames carries for it.
C26_CwdIsRealPath ==
  (Attached /\ nodeMap # <<>>) =>
    /\ state.cwd # <<>>
    /\ state.cwd[1] = findRootNode(nodeMap).nodeId
    /\ \A k \in DOMAIN state.cwd : MapGet(nodeMap, state.cwd[k]) # NoNode
    /\ \A k \in 1..(Len(state.cwd) - 1) :
         ListedAs(state.cwd[k], state.cwd[k + 1], state.cwdNames[k + 1])

\* CWD has gone below the root into the single child of an elided wrapper
C26_Witness ==
  /\ Attached /\ nodeMap # <<>>
  /\ \E k \in 1..(Len(state.cwd) - 1) :
       ~includes(MapGet(nodeMap, state.cwd[k]).childIds, state.cwd[k + 1])

\* the entries below the node, down to n levels, each listing before the
\* listings of its entries
RECURSIVE EntriesBelow(_, _)
EntriesBelow(id, n) ==
  IF n = 0 THEN {}
  ELSE LET entries == Listing(id)
       IN  {entries[p] : p \in DOMAIN entries}
             \cup UNION {EntriesBelow(entries[p].axNodeId, n - 1) : p \in DOMAIN entries}

\* the entry matches the pattern as grep matches: the pattern, whatever its
\* case, is part of the name, the role or the value
GrepHit(entry, pattern) == GrepMatches(<<entry>>, toLowerCase(pattern)) # <<>>

\* the names on the lines of a text of grep, each with the role beside it
NamesShown(out) ==
  IF out.text = "{lines}"
    THEN {<<out.with[k].name, out.with[k].role>> : k \in DOMAIN out.with}
    ELSE {}

\* the name and the role that a line of grep shows for the entry
ShownAs(entry) == <<entry.name, Spell(entry.role)>>

\* grep has just run with these arguments and got as far as its search
GrepRan(args) ==
  /\ last.cmd = "grep" /\ last.args = args
  /\ last.out \notin {Caught(NotAttached), Caught(NoCwd)}

\* C27: grep matches whatever the case of the pattern, on the name, the role
\* or the value of an entry; and after grep -r <pattern> every entry below
\* CWD that matches <pattern> is shown, and the no-match text is given for
\* <pattern> only when none does.
C27_GrepFlagsNotPattern ==
  /\ \A pattern \in {<<"B","T","N">>, <<"l","i","s","t">>, <<"x">>} :
       GrepRan(<<pattern>>) =>
         \A p \in DOMAIN Listing(Last(state.cwd)) :
           GrepHit(Listing(Last(state.cwd))[p], pattern)
             <=> ShownAs(Listing(Last(state.cwd))[p]) \in NamesShown(last.out)
  /\ GrepRan(<< <<"-","r">>, <<"b","t","n">> >>) =>
       LET hits == {e \in EntriesBelow(Last(state.cwd), Len(nodeMap)) :
                      GrepHit(e, <<"b","t","n">>)}
       IN  /\ \A e \in hits : ShownAs(e) \in NamesShown(last.out)
           /\ hits = {} => last.out = Text("No matches for '{0}'", << <<"b","t","n">> >>)

\* C28: a find command is executed as a search below CWD; it is never
\* answered as a command that is not found.
C28_FindIsACommand ==
  ~(/\ last.cmd = "default"
    /\ last.out = Text("agentshell: {0}: command not found\r\nType 'help' for available commands.",
                       << <<"f","i","n","d">> >>))

\* the nesting of a line of tree below the root line: the number of 4-character
\* prefixes before its connector, plus one
LineDepth(text) ==
  LET starts == {k \in 0..(Len(text) \div 4) :
                   4 * k + 4 <= Len(text)
                   /\ SubSeq(text, 4 * k + 1, 4 * k + 4) \in {LastConnector, TeeConnector}}
  IN  IF starts = {} THEN 0
      ELSE 1 + (CHOOSE k \in starts : \A j \in starts : k <= j)

\* the depth tree was asked for: the number given, 2 when none is given or
\* when what is given is not a number
AskedDepth(args) ==
  IF Len(args) > 0 /\ args[1] # <<>> /\ ~parseInt(args[1]).nan
    THEN parseInt(args[1]).n
    ELSE DefaultDepth

\* tree has just rendered the lines of CWD
TreeRan ==
  /\ last.cmd = "tree"
  /\ last.out \notin {Caught(NotAttached), Caught(NoCwd)}

\* the lines of tree below the root line
TreeEntries == Tail(last.out.with)

\* C29: tree renders no entry nested deeper than the depth it was asked for
\* (2 when no argument is given), whatever the argument: 0, negative or not a
\* number
C29_TreeWithinDepth ==
  TreeRan =>
    \A k \in DOMAIN TreeEntries :
      LineDepth(TreeEntries[k].text) <= AskedDepth(last.args)

\* C29, numeric part: with no argument or a numeric one, no entry nested
\* deeper than the depth is rendered
C29_NumericWithinDepth ==
  (TreeRan /\ (last.args = <<>> \/ ~parseInt(last.args[1]).nan)) =>
    \A k \in DOMAIN TreeEntries :
      LineDepth(TreeEntries[k].text) <= AskedDepth(last.args)

\* C29, numeric part reached: tree with the default depth has rendered an
\* entry at depth 2
C29_NumericWitness ==
  /\ TreeRan /\ last.args = <<>>
  /\ \E k \in DOMAIN TreeEntries : LineDepth(TreeEntries[k].text) = DefaultDepth

\* the kernel is attached and CWD is a directory with no listable children
EmptyCwd ==
  /\ ensureAttached
  /\ Len(state.cwd) > 0
  /\ getChildVFSNodes(Last(state.cwd), nodeMap) = <<>>

\* C30: when the kernel is attached and CWD has no listable children, ls
\* returns the empty-directory marker, grep with a pattern returns the
\* no-match text, and tree returns exactly one line, the root line
C30_EmptyDirectory ==
  EmptyCwd =>
    /\ last.cmd = "ls" => last.out = Text("(empty directory)", <<>>)
    /\ (last.cmd = "grep" /\ last.args # <<>>) =>
         last.out = Text("No matches for '{0}'", <<toLowerCase(last.args[1])>>)
    /\ last.cmd = "tree" =>
         /\ last.out.text = "{lines}"
         /\ Len(last.out.with) = 1
         /\ ~Includes(last.out.with[1].text, LastConnector)
         /\ ~Includes(last.out.with[1].text, TeeConnector)

\* C30 reached: grep has searched a CWD with no listable children
C30_Witness == EmptyCwd /\ last.cmd = "grep" /\ last.args # <<>>

\* C30 reached by ls
C30_LsInEmptyCwd == EmptyCwd /\ last.cmd = "ls"

\* C30 reached by tree, at a root and below a root
C30_TreeInEmptyCwd == EmptyCwd /\ last.cmd = "tree"

C30_TreeAtEmptyRoot == EmptyCwd /\ last.cmd = "tree" /\ Len(state.cwd) = 1

\* the page of the attached tab has changed since the kernel read its tree
PageChanged == ensureAttached /\ page.tree # axTree

\* the ids of the path that the names lead to from cwd in a NodeMap, by the
\* resolution of cd; <<>> when a name does not resolve to a directory
RECURSIVE Replayed(_, _, _)
Replayed(map, names, cwd) ==
  IF names = <<>> THEN cwd
  ELSE LET match == findChildByName(Last(cwd), Head(names), map)
       IN  IF match = NoVFS \/ ~match.isDirectory THEN <<>>
           ELSE Replayed(map, Tail(names), Append(cwd, match.axNodeId))

\* where a re-ingestion of the page leaves CWD: at the root after a
\* navigation; after a mutation at the replayed path of CWDNames, or at the
\* root when a segment does not resolve
CwdAfterChange ==
  LET map    == buildNodeMap(page.tree)
      root   == ResetToRoot(state, map).cwd
      replay == Replayed(map, Tail(state.cwdNames), root)
  IN  IF page.change = "mutation" /\ replay # <<>> THEN replay ELSE root

\* the step is a command that reads without moving, issued on the page as it
\* is
ReadsAfterChange ==
  /\ PageChanged
  /\ page' = page
  /\ last' # last
  /\ last'.cmd \in {"ls", "pwd"}

\* C31: after a navigation or a mutation of the attached page, the next
\* command runs against the re-ingested NodeMap without an explicit refresh,
\* with CWD at the root after a navigation, and after a mutation at the
\* replayed path of CWDNames if every segment resolves, else at the root
C31_NextCommandReingests ==
  [][ReadsAfterChange =>
        /\ nodeMap' = buildNodeMap(page.tree)
        /\ state'.cwd = CwdAfterChange]_vars

\* C31, the part that holds: an explicit refresh after a change of the page
\* reads the new tree and leaves CWD at the root
C31_RefreshReingests ==
  [][(PageChanged /\ page' = page /\ last'.cmd = "refresh"
        /\ last'.out.text = "Refreshed. {0} AX nodes loaded.")
       => /\ nodeMap' = buildNodeMap(page.tree)
          /\ state'.cwd = ResetToRoot(state, nodeMap').cwd]_vars

\* the places among the child ids of a parent of a wrapper whose single child
\* is a wrapper too
ChainPlaces(parent) ==
  {i \in WrapperPlaces(parent) :
     LET inner == MapGet(nodeMap, MapGet(nodeMap, parent.childIds[i]).childIds[1])
     IN  inner # NoNode /\ IsWrapper(inner)}

C33_KernelAndCdpAgree == state.attachedTabId = cdp.attachedTabId

\* C33, the case named: the kernel was attached to a tab, and an attach to
\* the other tab has failed
C33_SecondAttachFailed ==
  /\ last.cmd = "attach"
  /\ last.out = Text("Error attaching: " \o ChromeError, <<>>)
  /\ state.attachedTabId # NoTab
  /\ treeTab = state.attachedTabId
  /\ cdp.attachedTabId # state.attachedTabId

\* handleAttach has just returned its text of success, so that cdp.attach
\* returned without throwing
AttachReturned ==
  /\ last.cmd = "attach"
  /\ last.out.text = "Attached to tab {0}\r\n  Title: unknown\r\n  URL:   unknown\r\n  AX Nodes: {1}\r\n"

\* C34, first part: when cdp.attach has returned successfully, the
\* Accessibility, DOM and Runtime domains are enabled on the tab it is bound
\* to
C34_ReturnedMeansEnabled ==
  AttachReturned => cdp.attachedTabId \in cdp.enabled

\* C34: when cdp.attach has returned successfully the domains are enabled on
\* the tab since it was bound, and an attach that throws leaves the client
\* unbound, so that the client is never bound to a tab whose domains are not
\* enabled
C34_BoundMeansEnabled ==
  /\ C34_ReturnedMeansEnabled
  /\ cdp.attachedTabId # NoTab => cdp.attachedTabId \in cdp.enabled

\* the step is a refresh whose fetch of the tree fails
RefreshFails ==
  /\ last' # last
  /\ last'.cmd = "refresh"
  /\ last'.out \in {Caught(ChromeError), Caught(CdpNotAttached)}

\* C35: a refresh whose tree fetch fails reports an error and leaves the
\* NodeMap, CWD, CWDNames and the attached target as they were
C35_FailedRefreshKeepsAll ==
  [][RefreshFails =>
       /\ nodeMap' = nodeMap
       /\ state' = state
       /\ cdp' = cdp]_vars

\* C35 witness: a refresh has failed with CWD below the root, where the
\* listing of the prior tree is still there
C35_Witness ==
  /\ last.cmd = "refresh"
  /\ last.out = Caught(ChromeError)
  /\ ensureAttached
  /\ Len(state.cwd) > 1
  /\ getChildVFSNodes(Last(state.cwd), nodeMap) # <<>>

\* the connections that came with another token than AUTH_TOKEN
Unauthenticated ==
  {k \in DOMAIN mcp.sockets : mcp.sockets[k].token # AUTH_TOKEN}

\* C36: a connection whose token differs from AUTH_TOKEN is closed with the
\* code 4001, never is the extension client, never is sent an EXECUTE
\* message, and no message of it resolves a pending request
C36_WrongTokenShutOut ==
  \A k \in Unauthenticated :
    /\ mcp.sockets[k].code = 4001
    /\ mcp.sockets[k].readyState # "open"
    /\ mcp.extensionClient # k
    /\ mcp.sockets[k].executes = {}
    /\ ~mcp.sockets[k].listens
    /\ \A i \in DOMAIN mcp.calls : mcp.calls[i].by # k

\* C36 witness: a connection with another token was made while a request was
\* pending, and the request has been answered by the extension client since
C36_Witness ==
  \E k \in Unauthenticated, i \in DOMAIN mcp.calls :
    /\ mcp.sent # <<>> /\ mcp.sent[1].call = i
    /\ \E e \in DOMAIN mcp.log :
         /\ mcp.log[e].kind = "REJECTED"
         /\ e > mcp.sent[1].logged
         /\ \E r \in DOMAIN mcp.log :
              r > e /\ mcp.log[r].kind = "RESULT" /\ mcp.log[r].call = i
    /\ mcp.calls[i].by \notin {NoClient, k}

\* the connections that were accepted as the extension
Accepted == {k \in DOMAIN mcp.sockets : mcp.sockets[k].listens}

\* the connection accepted last
MostRecent == CHOOSE k \in Accepted : \A j \in Accepted : j <= k

\* the connection has closed or its error event has fired
Gone(socket) == socket.readyState = "closed" \/ socket.errored

\* C37, the states: an accepted connection that is open is the extension
\* client, the client is the connection accepted last, and there is no
\* client only when no connection was accepted or the one accepted last
\* has closed or errored
C37_ClientIsMostRecent ==
  /\ \A k \in Accepted :
       mcp.sockets[k].readyState = "open" => mcp.extensionClient = k
  /\ mcp.extensionClient # NoClient => mcp.extensionClient = MostRecent
  /\ (mcp.extensionClient = NoClient /\ Accepted # {}) =>
       Gone(mcp.sockets[MostRecent])

\* C37, the steps: the client is cleared only by the close or the error of
\* the connection that is the client, and a new client comes only with a
\* new connection, which closes the one it replaces
C37_ClearedByOwnClose ==
  LET old == mcp.extensionClient
      new == mcp'.extensionClient
  IN  /\ (old # NoClient /\ new = NoClient) =>
           /\ ~Gone(mcp.sockets[old])
           /\ Gone(mcp'.sockets[old])
      /\ (old # NoClient /\ new \notin {NoClient, old}) =>
           /\ new = Len(mcp.sockets) + 1
           /\ mcp'.sockets[old].readyState # "open"

\* C37: there is one extension client at most; a new authenticated
\* connection closes and replaces the current one; a close or error of a
\* replaced connection never clears the current client; and the client is
\* null only when the connection accepted last has closed or errored
C37_OneExtensionClient ==
  [][C37_ClientIsMostRecent' /\ C37_ClearedByOwnClose]_vars

\* C37 witness: a second connection has replaced the first as the client,
\* and the first has closed since
C37_Witness ==
  /\ Len(mcp.sockets) = 2
  /\ Accepted = {1, 2}
  /\ mcp.sockets[1].readyState = "closed"
  /\ mcp.extensionClient = 2

\* the calls that sendCommand rejected for want of an open extension client
Unsent ==
  { i \in DOMAIN mcp.calls :
      mcp.calls[i].at = "done" /\ mcp.calls[i].result = Caught(NotConnected) }

\* C38, the states: resolve or reject is called once at most for a request;
\* pendingRequests holds a request, and its timer is armed, exactly while
\* the request is sent and not settled; a call rejected for want of an open
\* client has no entry and was sent to no connection
C38_EntryWhileUnsettled ==
  /\ \A i \in DOMAIN mcp.calls :
       /\ mcp.calls[i].settled <= 1
       /\ i \in mcp.pendingRequests <=>
            (mcp.calls[i].at = "sent" /\ mcp.calls[i].settled = 0)
       /\ i \in mcp.timers <=> i \in mcp.pendingRequests
  /\ mcp.pendingRequests \subseteq DOMAIN mcp.calls
  /\ \A i \in Unsent :
       /\ i \notin SentCalls
       /\ \A k \in DOMAIN mcp.sockets : i \notin mcp.sockets[k].executes

\* C38, the steps: a request that has settled keeps what it returned,
\* whatever RESULT comes later, and a step takes an entry from
\* pendingRequests only by settling its request
C38_SettledForGood ==
  \A i \in DOMAIN mcp.calls :
    /\ mcp.calls[i].settled = 1 =>
         /\ mcp'.calls[i].result = mcp.calls[i].result
         /\ mcp'.calls[i].at = mcp.calls[i].at
         /\ mcp'.calls[i].by = mcp.calls[i].by
    /\ (i \in mcp.pendingRequests /\ i \notin mcp'.pendingRequests) =>
         /\ mcp'.calls[i].settled = 1
         /\ mcp'.calls[i].at = "done"

\* C38: each request of sendCommand is settled once at most and leaves
\* pendingRequests when it settles: a RESULT with its id resolves it and
\* cancels its timer, the timeout rejects it, a late or duplicate RESULT or
\* one with an unknown id changes nothing, and with no open extension client
\* sendCommand rejects at once without an entry and without sending
C38_SettledOnceAndRemoved ==
  [][C38_EntryWhileUnsettled' /\ C38_SettledForGood]_vars

\* C38 witness: one request timed out and a RESULT with its id came later;
\* another was resolved by a RESULT
C38_Witness ==
  \E i, j \in DOMAIN mcp.calls :
    /\ mcp.calls[i].result = Caught(TimedOut) /\ mcp.calls[i].late
    /\ mcp.calls[j].by # NoClient /\ mcp.calls[j].at = "done"

\* executeWithSecurity has accepted the call: neither the tier check nor the
\* user denied it, and it was handed to sendCommand
AcceptedCall(i) == i \in SentCalls \/ i \in Unsent

\* the call has returned and pendingRequests holds nothing for it
Finished(i) ==
  /\ i \in DOMAIN mcp.calls
  /\ mcp.calls[i].at = "done"
  /\ mcp.calls[i].result # NoReply
  /\ i \notin mcp.pendingRequests

\* C39: every command that executeWithSecurity accepts returns a text in the
\* end, and pendingRequests holds nothing for it in the end, whether the
\* extension answers, stays silent, disconnects or is replaced
C39_EveryCallReturns ==
  \A i \in 1..MaxCalls : AcceptedCall(i) ~> Finished(i)

\* C39, the part that holds: a request that was sent returns in the end when
\* no call stands at the prompt of confirmAction for ever
C39_SentCallReturns ==
  \A i \in 1..MaxCalls :
    (i \in mcp.pendingRequests) ~> (Finished(i) \/ Blocked)

====
